---- MODULE Spec2Model ----
(***************************************************************************)
(* ugoku-kun: the resilient request executor (_req_handle), the API        *)
(* endpoint resolver (CannonWrapper.get_full_uri), the dispatch engine     *)
(* (UgokuKun.execute_row / test_run / run), the task table loader          *)
(* (UgokuKun.load_task_csv), the motor (KeiganWrapper.turn_relative) and   *)
(* the camera session (CannonWrapper.__init__, set_shooting_settings),     *)
(* modelled from src/src/ugokukun/cannon_wrapper.py, keigan_wrapper.py and *)
(* ugoku_kun.py.                                                           *)
(*                                                                         *)
(* Strings that the code inspects character by character (URLs, logical    *)
(* paths) are sequences of one-character strings.  Six specifications      *)
(* share the variables: SpecExecutor, SpecResolver, SpecRun, SpecLoad,     *)
(* SpecMotor and SpecCamera; each keeps the variables of the other         *)
(* components at their initial values.                                     *)
(***************************************************************************)
EXTENDS Integers, Sequences, FiniteSets, TLC

VARIABLES
    \* ---- camera session (CannonWrapper) ----
    available_api,  \* root capability map: sequence of [tag, apis], in dict order
    api_url,        \* flattened endpoint catalog (list of URLs)
    max_attemts,    \* retry policy: self.max_attemts
    wait_time,      \* retry policy: self.wait_time, seconds between attempts
    \* ---- one call through _req_handle.wrapper ----
    pc,             \* "idle" | "loop" | "done"
    method,         \* "get" | "post" | "put" | "delete" | "-"
    api_str,        \* the URL the wrapper was called with
    attempt,        \* loop variable of `for attempt in range(max_attemts)`
    response,       \* the local `response` (unbound until a call returns)
    calls,          \* number of underlying func(...) calls of this call
    sleeps,         \* number of time.sleep(wait_time) of this call
    hist,           \* outcomes of the underlying calls of this call, in order
    outcome,        \* how the wrapper ended: return / raise
    trace,          \* the sleeps and underlying calls of this call, in order
    \* ---- one call of get_full_uri ----
    logical,        \* the api_str argument of get_full_uri (a logical path)
    resolved,       \* result of get_full_uri: returned URL or raised error
    \* ---- dispatch engine (UgokuKun) ----
    csv_df,         \* the task table: sequence of rows
    devresp,        \* per row: how the device answers that row's call
    mode,           \* "-" | "test_run" | "run": the run method in progress
    index,          \* position of the row loop of the run in progress
    visited,        \* per mode: rows handed to execute_row, in order
    devcalls,       \* per mode: device calls issued, in order
    applied,        \* per mode: device-state changes applied, in order
    slept,          \* per mode: wait_time sleeps performed, in order
    events,         \* per mode: sleeps, row executions and device calls, in order
    result,         \* per mode: "-" | "running" | "completed" | "aborted"
    \* ---- task table loading (UgokuKun.load_task_csv) ----
    engine,         \* "absent" | "constructed": whether a UgokuKun object exists
    task_csv_path,  \* self.task_csv_path
    csv_headers,    \* list(self.csv_df.columns), as a set
    task_id_list,   \* self.csv_df["task_id"].to_list(); << >> without that column
    loaded,         \* the last load_task_csv call: its source and how it ended
    built,          \* the last UgokuKun(...) call: its descriptor and how it ended
    \* ---- one motor (KeiganWrapper) ----
    speed,          \* self.speed: the rpm given at construction
    device_speed,   \* the speed the motor runs at, in rpm
    turn,           \* the turn_relative call in progress: position and locals
    turn_calls,     \* the arguments of the turn_relative calls made, in order
    motor_log,      \* driver commands and sleeps of those calls, in order
    motor_init,     \* position of KeiganWrapper.__init__, its arguments and its calls
    \* ---- one camera session (CannonWrapper) as the engine drives it ----
    cam,            \* position of CannonWrapper.__init__: [pc |-> ...]
    settings,       \* self.settings, the cached shooting settings
    device_info,    \* self.device_info
    requests,       \* underlying HTTP calls of the last operation, in order
    last_op,        \* the last session operation, its arguments and how it ended
    dumps,          \* what dump_attributes returned since the last settings write, in order
    \* ---- an engine with several sessions ----
    fleet           \* cannon_instances, keigan_instances, and the last row executed on them

vars == << available_api, api_url, max_attemts, wait_time, trace, pc, method, api_str, attempt,
           response, calls, sleeps, hist, outcome, logical, resolved,
           csv_df, devresp, mode, index, visited, devcalls, applied, slept,
           events, result, engine, task_csv_path, csv_headers, task_id_list,
           loaded, built, speed, device_speed, turn, turn_calls, motor_log, motor_init,
           cam, settings, device_info, requests, last_op, dumps, fleet >>

sessionVars  == << available_api, api_url, max_attemts, wait_time >>
executorVars == << pc, method, api_str, attempt, response, calls, sleeps, hist, outcome,
                   trace >>
resolverVars == << logical, resolved >>
engineVars   == << csv_df, devresp, mode, index, visited, devcalls, applied, slept,
                   events, result >>
loaderVars   == << engine, task_csv_path, csv_headers, task_id_list, loaded, built >>
motorVars    == << speed, device_speed, turn, turn_calls, motor_log, motor_init >>
cameraVars   == << cam, settings, device_info, requests, last_op, dumps >>
auxVars      == << loaderVars, motorVars, cameraVars, fleet >>

(***************************************************************************)
(* Bounds of the model.                                                    *)
(***************************************************************************)
MaxAttempts == 3    \* max_attemts ranges over 0..MaxAttempts
MaxVer      == 2    \* API version tags ver1..verMaxVer
MaxPathLen  == 1    \* characters of a logical path / of a URL after its version
MaxUrls     == 2    \* entries of the root capability map
MaxRows     == 2    \* rows of a task table

\* CannonWrapper.__init__: max_attempts: int = 5
DefaultMaxAttempts == 5

\* CannonWrapper.__init__: wait_time: float = 3
DefaultWaitTime == 3

(***************************************************************************)
(* Strings.                                                                *)
(***************************************************************************)
\* "a": an ordinary character, ".": the regex wildcard, "\n": a line feed.
PathChars == {"a", ".", "\n"}

RECURSIVE StringsUpTo(_, _)
StringsUpTo(chars, n) ==
    IF n = 0 THEN {<< >>}
    ELSE LET shorter == StringsUpTo(chars, n - 1)
         IN  shorter \cup {Append(s, c) : s \in shorter, c \in chars}

Paths == StringsUpTo(PathChars, MaxPathLen)

Versions == 1 .. MaxVer

\* "http://{ip_port}/ccapi/ver{v}{path}": the version tag, then the path.
VerChar(v) == ToString(v)
Url(v, path) == << VerChar(v) >> \o path

EndsWith(s, p) ==
    /\ Len(p) <= Len(s)
    /\ \A i \in 1 .. Len(p) : s[Len(s) - Len(p) + i] = p[i]

(***************************************************************************)
(* The camera session's endpoint catalog (CannonWrapper.__init__).         *)
(***************************************************************************)
\* One entry of the root response as it is iterated: the version tag it is
\* listed under and its "url".
\* The device lists a URL under the version tag the URL names.
Entries(paths) == {[tag |-> v, url |-> Url(v, p)] : v \in Versions, p \in paths}

\* A dict has each key once: the entries of one tag are contiguous.
Contiguous(flat) ==
    \A i, j \in 1 .. Len(flat) :
        (i < j /\ flat[i].tag = flat[j].tag) =>
            \A k \in i .. j : flat[k].tag = flat[i].tag

RECURSIVE SeqsUpTo(_, _)
SeqsUpTo(S, n) ==
    IF n = 0 THEN {<< >>}
    ELSE LET shorter == SeqsUpTo(S, n - 1)
         IN  shorter \cup {Append(s, e) : s \in shorter, e \in S}

\* The root response {tag: [{"url": ...}, ...], ...} as a sequence of
\* [tag, apis] in the order of the dict.
RECURSIVE Group(_)
Group(flat) ==
    IF flat = << >> THEN << >>
    ELSE LET g == Group(SubSeq(flat, 1, Len(flat) - 1))
             e == flat[Len(flat)]
         IN  IF g # << >> /\ g[Len(g)].tag = e.tag
             THEN [g EXCEPT ![Len(g)].apis = Append(@, e.url)]
             ELSE Append(g, [tag |-> e.tag, apis |-> << e.url >>])

RootResponses(maxUrls, paths) ==
    {Group(flat) : flat \in {f \in SeqsUpTo(Entries(paths), maxUrls) : Contiguous(f)}}

\* itertools.chain.from_iterable(self.available_api.values()), then api["url"].
RECURSIVE Flatten(_)
Flatten(root) ==
    IF root = << >> THEN << >>
    ELSE root[1].apis \o Flatten(Tail(root))

Range(s) == {s[i] : i \in 1 .. Len(s)}

(***************************************************************************)
(* _req_handle.wrapper: the resilient request executor.                    *)
(***************************************************************************)
Methods == {"get", "post", "put", "delete"}

\* requests.exceptions caught by the except clauses of the wrapper, in order.
RequestExceptions ==
    {"requests.Timeout", "requests.ConnectionError", "requests.HTTPError",
     "requests.TooManyRedirects", "requests.RequestException"}

\* An exception of the underlying call that no except clause names.
OtherExceptions == {"TypeError"}

StatusCodes == {200, 201, 204, 404, 500}

NoResponse == [bound |-> FALSE, has_status_code |-> FALSE, status_code |-> 0]

Responses ==
    [bound : {TRUE}, has_status_code : {TRUE}, status_code : StatusCodes]
        \cup {[bound |-> TRUE, has_status_code |-> FALSE, status_code |-> 0]}

\* What one underlying func(instance, api_str, ...) can do: raise or return.
FuncOutcomes ==
    [type : {"exc"}, exc : RequestExceptions \cup OtherExceptions, resp : {NoResponse}]
        \cup [type : {"resp"}, exc : {"-"}, resp : Responses]

NoOutcome == [kind |-> "none", exc |-> "-", resp |-> NoResponse]
Returned(r) == [kind |-> "return", exc |-> "-", resp |-> r]
Raised(e, r) == [kind |-> "raise", exc |-> e, resp |-> r]

\* Mutant of ApiAvailable: the membership assertion is dropped.
ApiAvailableUnchecked(url, catalog) == TRUE

\* line 44: assert api_str in instance.api_url
ApiAvailable(url, catalog) == url \in Range(catalog)

\* lines 57-94: the except clause that catches exc retries while
\* attempt < max_attemts - 1 and re-raises otherwise.
\* Mutant of Caught: only the first except clause (Timeout) is present.
CaughtTimeoutOnly(exc) == exc = "requests.Timeout"

Caught(exc) == exc \in RequestExceptions

\* Mutant of Retryable: the last attempt's failure is swallowed as well.
RetryableAlways(a, n) == a < n

Retryable(a, n) == a < n - 1

\* line 97
HasStatusCode(r) == r.has_status_code

\* Mutant of IsSuccess: any 2xx status counts as success.
IsSuccessAny2xx(r) == 200 <= r.status_code /\ r.status_code < 300

\* line 102
IsSuccess(r) == r.status_code = 200

\* Mutant of InRange: range(max_attemts + 1).
InRangeOneMore(a, n) == 0 <= a /\ a <= n

\* line 49: range(instance.max_attemts)
InRange(a, n) == 0 <= a /\ a < n

\* lines 112-115, reached when the for loop runs out.
AfterLoop(r) ==
    IF ~r.bound THEN Raised("UnboundLocalError", r)
    ELSE IF ~HasStatusCode(r) THEN Raised("AssertionError: NO status code returned", r)
    ELSE Raised("ConnectionError: I'm a teapot", r)

\* `continue`: the next iteration of the for loop, or the code after it.
Continue(r) ==
    IF InRange(attempt + 1, max_attemts)
    THEN /\ pc' = "loop"
         /\ attempt' = attempt + 1
         /\ response' = r
         /\ outcome' = outcome
    ELSE /\ pc' = "done"
         /\ attempt' = attempt
         /\ response' = r
         /\ outcome' = AfterLoop(r)

Finish(o, r) ==
    /\ pc' = "done"
    /\ attempt' = attempt
    /\ response' = r
    /\ outcome' = o

\* Mutant of Delay: the delay grows with the attempt number.
DelayBackoff(a, w) == IF a > 0 THEN << [ev |-> "sleep", secs |-> w * a] >> ELSE << >>

\* lines 50-51: if attempt > 0: time.sleep(instance.wait_time)
Delay(a, w) == IF a > 0 THEN << [ev |-> "sleep", secs |-> w] >> ELSE << >>

\* Entry of wrapper(instance, api_str, ...): lines 43-49.  A call starts with
\* fresh locals; with max_attemts = 0 the loop body never runs.
HttpCall(m, url) ==
    /\ pc \in {"idle", "done"}
    /\ mode = "-"
    /\ method' = m
    /\ api_str' = url
    /\ calls' = 0
    /\ sleeps' = 0
    /\ hist' = << >>
    /\ trace' = << >>
    /\ IF ~ApiAvailable(url, api_url)
       THEN /\ pc' = "done"
            /\ attempt' = 0
            /\ response' = NoResponse
            /\ outcome' = Raised("AssertionError: API not available", NoResponse)
       ELSE IF InRange(0, max_attemts)
       THEN /\ pc' = "loop"
            /\ attempt' = 0
            /\ response' = NoResponse
            /\ outcome' = NoOutcome
       ELSE /\ pc' = "done"
            /\ attempt' = 0
            /\ response' = NoResponse
            /\ outcome' = AfterLoop(NoResponse)
    /\ UNCHANGED << sessionVars, resolverVars, engineVars, auxVars >>

\* One iteration of the for loop: lines 50-110 (and 112-115 when it was the
\* last one and ended in `continue`).
Attempt(o) ==
    /\ pc = "loop"
    /\ sleeps' = IF attempt > 0 THEN sleeps + 1 ELSE sleeps
    /\ trace' = trace \o Delay(attempt, wait_time) \o << [ev |-> "call", secs |-> 0] >>
    /\ calls' = calls + 1
    /\ hist' = Append(hist, o)
    /\ IF o.type = "exc"
       THEN IF Caught(o.exc) /\ Retryable(attempt, max_attemts)
            THEN Continue(response)
            ELSE Finish(Raised(o.exc, response), response)
       ELSE IF ~HasStatusCode(o.resp) THEN Continue(o.resp)
       ELSE IF IsSuccess(o.resp) THEN Finish(Returned(o.resp), o.resp)
       ELSE Continue(o.resp)
    /\ UNCHANGED << sessionVars, method, api_str, resolverVars, engineVars, auxVars >>

\* A session with a small catalog: only membership of api_str matters here.
ExecutorRoots == RootResponses(1, {<< >>})

SessionInit(roots) ==
    /\ available_api \in roots
    /\ api_url = Flatten(available_api)

ExecutorIdle ==
    /\ pc = "idle"
    /\ method = "-"
    /\ api_str = << >>
    /\ attempt = 0
    /\ response = NoResponse
    /\ calls = 0
    /\ sleeps = 0
    /\ hist = << >>
    /\ outcome = NoOutcome
    /\ trace = << >>

ResolverIdle ==
    /\ logical = << >>
    /\ resolved = [kind |-> "none", exc |-> "-", url |-> << >>]

Modes == {"test_run", "run"}

EngineIdle ==
    /\ mode = "-"
    /\ index = 0
    /\ visited = [m \in Modes |-> << >>]
    /\ devcalls = [m \in Modes |-> << >>]
    /\ applied = [m \in Modes |-> << >>]
    /\ slept = [m \in Modes |-> << >>]
    /\ events = [m \in Modes |-> << >>]
    /\ result = [m \in Modes |-> "-"]

\* load_task_csv, lines 162-169: the required headers, in the order checked.
must_have_headers == << "task_id", "wait_time", "target", "action", "param", "payload" >>

\* No UgokuKun(...) call was made.
NotBuilt == [kind |-> "none", exc |-> "-", stage |-> "-", keigan |-> "-", cannon |-> "-",
             notice |-> FALSE, calls |-> << >>]

NotLoaded == [kind |-> "none", exc |-> "-", file |-> [columns |-> {}, ids |-> << >>]]

\* No UgokuKun object exists.
LoaderIdle ==
    /\ engine = "absent"
    /\ task_csv_path = "-"
    /\ csv_headers = {}
    /\ task_id_list = << >>
    /\ loaded = NotLoaded
    /\ built = NotBuilt

\* KeiganWrapper.__init__: speed: int = 30.
DefaultSpeed == 30

NoTurn == [pc |-> "idle", clock_wise |-> FALSE, degrees |-> 0]

\* The KeiganWrapper of the motor variables was constructed elsewhere.
NoKeigan == [pc |-> "-", port |-> "-", ports |-> {}, os |-> "-", connect |-> "-",
             log |-> << >>, exc |-> "-"]

\* A motor constructed with the default speed, no turn made yet.
MotorIdle ==
    /\ motor_init = NoKeigan
    /\ speed = DefaultSpeed
    /\ device_speed = DefaultSpeed
    /\ turn = NoTurn
    /\ turn_calls = << >>
    /\ motor_log = << >>

\* Values of a setting: Python str or int.
StrVal(x) == [t |-> "str", s |-> x, n |-> 0]
IntVal(x) == [t |-> "int", s |-> "", n |-> x]
NoneVal == [t |-> "none", s |-> "", n |-> 0]

\* set_shooting_settings, lines 374-381: parameter name -> wire key.
param_key ==
    [p \in {"shutter_speed", "aperture", "iso", "exposure", "whitebalance", "colortemperature"} |->
        IF p = "shutter_speed" THEN "tv"
        ELSE IF p = "aperture" THEN "av"
        ELSE IF p = "whitebalance" THEN "wb"
        ELSE p]

WireKeys == {param_key[p] : p \in DOMAIN param_key}

\* self.settings = {} (line 223): nothing cached for any key.
NoSettings == [k \in WireKeys |-> [value |-> NoneVal, ability |-> << >>]]

NoOp ==
    [name |-> "-", action |-> "-", param |-> "-", value |-> NoneVal, payload |-> NoneVal,
     auto_power_off |-> FALSE, sync_time |-> FALSE, dst_known |-> TRUE, put |-> "-", get |-> "-", before |-> NoSettings,
     kind |-> "none", exc |-> "-"]

\* No CannonWrapper object exists.
CameraIdle ==
    /\ cam = [pc |-> "disconnected"]
    /\ settings = NoSettings
    /\ device_info = "-"
    /\ requests = << >>
    /\ last_op = NoOp
    /\ dumps = << >>

\* No engine with sessions exists.
NoFleet == [cameras |-> << >>, motors |-> << >>, wire |-> << >>,
            row |-> [target |-> "-", action |-> "-", param |-> "-", kind |-> "none", exc |-> "-"]]

InitExecutor ==
    /\ SessionInit(ExecutorRoots)
    /\ max_attemts \in 0 .. MaxAttempts
    /\ wait_time \in {0, DefaultWaitTime}
    /\ ExecutorIdle
    /\ ResolverIdle
    /\ csv_df = << >>
    /\ devresp = << >>
    /\ EngineIdle
    /\ LoaderIdle
    /\ MotorIdle
    /\ CameraIdle
    /\ fleet = NoFleet

NextExecutor ==
    \/ \E m \in Methods, v \in Versions : HttpCall(m, Url(v, << >>))
    \/ \E o \in FuncOutcomes : Attempt(o)

SpecExecutor == InitExecutor /\ [][NextExecutor]_vars

(***************************************************************************)
(* Properties of the executor (checked under SpecExecutor).                *)
(***************************************************************************)
InCatalog == api_str \in Range(api_url)

IsResp(o) == o.type = "resp"
IsNon200(o) == IsResp(o) /\ o.resp.has_status_code /\ o.resp.status_code # 200
Is200(o) == IsResp(o) /\ o.resp.has_status_code /\ o.resp.status_code = 200
IsTransport(o) == o.type = "exc" /\ o.exc \in RequestExceptions

Exhausted == outcome.kind = "raise" /\ outcome.exc = "ConnectionError: I'm a teapot"

\* C1: with max_attempts = n >= 1 and a cataloged endpoint, a call whose
\* attempts all return non-200 responses makes exactly n underlying calls and
\* fails with the exhausted ConnectionError; a 200 response is always the last
\* underlying call of its call (the k-th, k <= n), ends the call and is the
\* value returned.
C1_ExactAttempts ==
    /\ (pc = "done" /\ InCatalog /\ max_attemts >= 1
            /\ \A i \in 1 .. Len(hist) : IsNon200(hist[i]))
        => (calls = max_attemts /\ Len(hist) = max_attemts /\ Exhausted)
    /\ \A k \in 1 .. Len(hist) :
          Is200(hist[k]) =>
              /\ k = Len(hist)
              /\ k <= max_attemts
              /\ calls = k
              /\ pc = "done"
              /\ outcome = Returned(hist[k].resp)

\* C1 witness: success on the third attempt after a transport failure and a
\* non-200 response.
C1_Witness ==
    /\ pc = "done"
    /\ Len(hist) = 3
    /\ IsTransport(hist[1])
    /\ IsNon200(hist[2])
    /\ Is200(hist[3])
    /\ outcome.kind = "return"

\* C2: only a response with status code exactly 200 is returned; a response
\* with any other status code is followed by another attempt while attempts
\* remain.
C2_Only200Returned ==
    /\ outcome.kind = "return" =>
          (outcome.resp.has_status_code /\ outcome.resp.status_code = 200)
    /\ (Len(hist) >= 1 /\ IsNon200(hist[Len(hist)]))
          => /\ outcome.kind # "return"
             /\ Len(hist) < max_attemts =>
                   (pc = "loop" /\ attempt = Len(hist) /\ outcome = NoOutcome)

\* C2 witness: a 204 and a 201 were retried, attempts remain.
C2_Witness ==
    /\ pc = "loop"
    /\ Len(hist) = 2
    /\ IsNon200(hist[1]) /\ hist[1].resp.status_code = 204
    /\ IsNon200(hist[2]) /\ hist[2].resp.status_code = 201
    /\ max_attemts = 3

\* C3: a transport failure on an attempt that is not the last is followed by
\* another attempt; on the last attempt it is re-raised to the caller,
\* whatever the earlier attempts observed.
C3_TransportFailure ==
    (Len(hist) >= 1 /\ IsTransport(hist[Len(hist)])) =>
        IF Len(hist) < max_attemts
        THEN pc = "loop" /\ attempt = Len(hist) /\ outcome = NoOutcome
        ELSE /\ pc = "done"
             /\ outcome.kind = "raise"
             /\ outcome.exc = hist[Len(hist)].exc

\* C3 witness: the last of three attempts times out after a 500 and a
\* connection error, and the timeout is what the caller gets.
C3_Witness ==
    /\ pc = "done"
    /\ max_attemts = 3
    /\ Len(hist) = 3
    /\ IsNon200(hist[1])
    /\ IsTransport(hist[2])
    /\ hist[3].type = "exc" /\ hist[3].exc = "requests.Timeout"
    /\ outcome.exc = "requests.Timeout"

\* C4 (as claimed): when all max_attempts attempts completed without a 200 and
\* the last one returned a response, the call fails with the exhausted
\* ConnectionError, also when that response has no status code.
C4_ExhaustedAlwaysConnectionError ==
    (/\ pc = "done"
     /\ InCatalog
     /\ max_attemts >= 1
     /\ Len(hist) = max_attemts
     /\ \A i \in 1 .. Len(hist) : ~Is200(hist[i])
     /\ IsResp(hist[Len(hist)]))
        => Exhausted

\* C5 (as claimed): a call whose attempts all end in a transport failure
\* surfaces as the exhausted-retries error.
C5_TransportSurfacesAsExhausted ==
    (/\ pc = "done"
     /\ InCatalog
     /\ Len(hist) >= 1
     /\ \A i \in 1 .. Len(hist) : IsTransport(hist[i]))
        => Exhausted

\* C5 (amended): a call whose attempts all raise a transport exception makes
\* exactly max_attempts underlying calls and then surfaces the exception of the
\* last attempt itself, which is not the exhausted error and carries no status.
C5_TransportReraised ==
    (/\ pc = "done"
     /\ InCatalog
     /\ Len(hist) >= 1
     /\ \A i \in 1 .. Len(hist) : IsTransport(hist[i]))
        => /\ calls = max_attemts
           /\ Len(hist) = max_attemts
           /\ sleeps = max_attemts - 1
           /\ outcome = Raised(hist[Len(hist)].exc, NoResponse)
           /\ ~Exhausted

\* C5 witness: three transport failures in a row, of different kinds.
C5_Witness ==
    /\ pc = "done"
    /\ max_attemts = 3
    /\ Len(hist) = 3
    /\ hist[1].exc = "requests.Timeout"
    /\ hist[2].exc = "requests.ConnectionError"
    /\ hist[3].exc = "requests.TooManyRedirects"
    /\ outcome.kind = "raise"

\* C6: a call with a URL that is not in api_url fails immediately: no
\* underlying call, no sleep, no retry, whatever max_attempts is; the retry
\* loop only ever runs for a cataloged URL.
C6_UnknownEndpointFailsFast ==
    /\ (pc = "done" /\ ~InCatalog)
          => /\ calls = 0
             /\ sleeps = 0
             /\ hist = << >>
             /\ outcome = Raised("AssertionError: API not available", NoResponse)
    /\ pc = "loop" => InCatalog

\* C6 witness: an unknown URL with three attempts allowed.
C6_Witness ==
    /\ pc = "done"
    /\ ~InCatalog
    /\ max_attemts = 3
    /\ outcome.kind = "raise"

(***************************************************************************)
(* CannonWrapper.get_full_uri: the API endpoint resolver.                  *)
(***************************************************************************)
\* One pattern character against one subject character: "." matches any
\* character but a line feed, every other character of the alphabet is literal.
CharMatch(pc_, c) == IF pc_ = "." THEN c # "\n" ELSE pc_ = c

\* `$` without re.MULTILINE: the end of the string, or just before a line feed
\* that ends the string.
AtDollar(s, e) == e = Len(s) \/ (e = Len(s) - 1 /\ s[Len(s)] = "\n")

\* line 285: re.compile(f"{api_str}$").search, truthy when some position matches.
Search(pat, s) ==
    \E start \in 0 .. Len(s) :
        /\ start + Len(pat) <= Len(s)
        /\ \A j \in 1 .. Len(pat) : CharMatch(pat[j], s[start + j])
        /\ AtDollar(s, start + Len(pat))

\* lines 286-289: the scan keeps the last URL that matches ("" when none).
LastMatch(catalog, pat) ==
    LET hits == {i \in DOMAIN catalog : Search(pat, catalog[i])}
    IN  IF hits = {} THEN << >>
        ELSE catalog[CHOOSE i \in hits : \A j \in hits : j <= i]

NotResolved == [kind |-> "none", exc |-> "-", url |-> << >>]

\* Mutant of GetFullUri: without a match the URL is built from the path.
GetFullUriBuilt(catalog, pat) ==
    LET valid_api == LastMatch(catalog, pat)
    IN  [kind |-> "return", exc |-> "-",
         url |-> IF valid_api = << >> THEN << "/ccapi" >> \o pat ELSE valid_api]

\* Mutant of GetFullUri: without a match the first URL of the catalog is
\* returned.
GetFullUriOrFirst(catalog, pat) ==
    LET valid_api == LastMatch(catalog, pat)
    IN  IF valid_api = << >> /\ catalog = << >>
        THEN [kind |-> "raise", exc |-> "ValueError: API not available", url |-> << >>]
        ELSE [kind |-> "return", exc |-> "-",
              url |-> IF valid_api = << >> THEN catalog[1] ELSE valid_api]

\* lines 284-294
GetFullUri(catalog, pat) ==
    LET valid_api == LastMatch(catalog, pat)
    IN  IF valid_api = << >>
        THEN [kind |-> "raise", exc |-> "ValueError: API not available", url |-> << >>]
        ELSE [kind |-> "return", exc |-> "-", url |-> valid_api]

\* get_full_uri reads the catalog and changes nothing of the session, so one
\* call per behaviour covers every pair of a catalog and a logical path.
get_full_uri(path) ==
    /\ pc = "idle"
    /\ mode = "-"
    /\ resolved = NotResolved
    /\ logical' = path
    /\ resolved' = GetFullUri(api_url, path)
    /\ UNCHANGED << sessionVars, executorVars, engineVars, auxVars >>

\* Longer root responses over two paths, an ordinary one and a dot.
LongRoots == RootResponses(MaxUrls + 1, {<< "a" >>, << "." >>})

InitResolver ==
    /\ SessionInit(RootResponses(MaxUrls, Paths) \cup LongRoots)
    /\ max_attemts = DefaultMaxAttempts
    /\ wait_time = DefaultWaitTime
    /\ ExecutorIdle
    /\ ResolverIdle
    /\ csv_df = << >>
    /\ devresp = << >>
    /\ EngineIdle
    /\ LoaderIdle
    /\ MotorIdle
    /\ CameraIdle
    /\ fleet = NoFleet

NextResolver == \E path \in Paths : get_full_uri(path)

SpecResolver == InitResolver /\ [][NextResolver]_vars

(***************************************************************************)
(* Properties of the resolver (checked under SpecResolver).                *)
(***************************************************************************)
\* C7 (as claimed): get_full_uri(p) returns a member of the catalog that ends
\* with p, and raises exactly when no member of the catalog ends with p.
C7_ExactSuffixOrRaise ==
    resolved.kind # "none" =>
        IF \E u \in Range(api_url) : EndsWith(u, logical)
        THEN /\ resolved.kind = "return"
             /\ resolved.url \in Range(api_url)
             /\ EndsWith(resolved.url, logical)
        ELSE resolved.kind = "raise"

\* The tags of the root response under which some URL ends with path.
TagsExposing(path) ==
    {available_api[i].tag : i \in {k \in 1 .. Len(available_api) :
        \E u \in Range(available_api[k].apis) : EndsWith(u, path)}}

MaxOf(S) == CHOOSE x \in S : \A y \in S : y <= x

PlainPath(path) == path # << >> /\ \A i \in 1 .. Len(path) : path[i] = "a"

\* C8 (as claimed): when a logical path is exposed under more than one version
\* tag, get_full_uri returns the URL of the highest version, whatever the
\* order of the tags in the catalog.  (Stated for non-empty paths of ordinary
\* characters.)
C8_HighestVersionWins ==
    (/\ resolved.kind # "none"
     /\ PlainPath(logical)
     /\ Cardinality(TagsExposing(logical)) >= 2)
        => /\ resolved.kind = "return"
           /\ resolved.url[1] = VerChar(MaxOf(TagsExposing(logical)))

\* The positions of the catalog whose URL ends with the path.
EndingWith(path) == {i \in 1 .. Len(api_url) : EndsWith(api_url[i], path)}

\* C28 (as claimed): when several catalog URLs end with the logical path,
\* get_full_uri returns the one of them that comes last in the catalog's
\* iteration order.
C28_LastSuffixMatchWins ==
    (/\ resolved.kind # "none"
     /\ Cardinality(EndingWith(logical)) >= 2)
        => /\ resolved.kind = "return"
           /\ resolved.url = api_url[MaxOf(EndingWith(logical))]

(***************************************************************************)
(* UgokuKun: the dispatch engine.                                          *)
(***************************************************************************)
\* self.cannon_cameras.keys() and self.keigan_motors.keys()
\* The descriptor file may name a device "all", and may list one id under
\* both kinds.
CameraIds == {"cam1", "both", "all"}
MotorIds == {"motor1", "both"}

\* execute_cannon, execute_keigan, execute_all: the actions each handles.
CameraActions ==
    {"get", "post", "put", "delete", "shutter", "aperture", "exposure", "iso",
     "color_temperature", "white_balance", "shutter_speed"}
MotorActions == {"cw", "ccw", "speed"}
AllActions == {"sleep"}

\* The rows the model draws tables from: every target kind, an unknown
\* target, and actions that are valid for one kind and invalid for the others.
RowTargets == {"all", "cam1", "motor1", "both", "desk"}
RowActions == {"sleep", "get", "cw"}
WaitTimes == {-1, 0, 1}

Rows == [wait_time : WaitTimes, target : RowTargets, action : RowActions]

\* The rows whose handler reaches a device.
CallsDevice(row) ==
    \/ row.target # "all" /\ row.target \in CameraIds /\ row.action \in CameraActions
    \/ /\ row.target # "all" /\ row.target \notin CameraIds
       /\ row.target \in MotorIds /\ row.action \in MotorActions

\* What executing one row did: [raised, exc, call, change].
RowOk(call, change) == [raised |-> FALSE, exc |-> "-", call |-> call, change |-> change]
RowRaised(exc, call) == [raised |-> TRUE, exc |-> exc, call |-> call, change |-> << >>]

\* The session method a camera or motor row ends in: it returns after the
\* device took the call, or raises what the device call raised.
DeviceCall(i) ==
    LET c == [row |-> i, target |-> csv_df[i].target, action |-> csv_df[i].action]
    IN  IF devresp[i] = "ok" THEN RowOk(<< c >>, << c >>)
        ELSE RowRaised("device error", << c >>)

\* Mutant of ExecuteAll: a sleep row is handed to a device.
ExecuteAllBroadcast(i) == DeviceCall(i)

\* execute_all
ExecuteAll(i) ==
    IF csv_df[i].action \in AllActions THEN RowOk(<< >>, << >>)
    ELSE RowRaised("ValueError: Invalid action", << >>)

\* execute_cannon
ExecuteCannon(i) ==
    IF csv_df[i].action \in CameraActions THEN DeviceCall(i)
    ELSE RowRaised("ValueError: Invalid action", << >>)

\* Mutant of ExecuteKeigan: the action is not checked.
ExecuteKeiganUnchecked(i) == DeviceCall(i)

\* execute_keigan
ExecuteKeigan(i) ==
    IF csv_df[i].action \in MotorActions THEN DeviceCall(i)
    ELSE RowRaised("ValueError: Invalid action", << >>)

\* Mutant of Dispatch: the motor ids are looked up before the camera ids.
DispatchMotorFirst(i) ==
    IF csv_df[i].target = "all" THEN "execute_all"
    ELSE IF csv_df[i].target \in MotorIds THEN "execute_keigan"
    ELSE IF csv_df[i].target \in CameraIds THEN "execute_cannon"
    ELSE "none"

\* execute_row, lines 195-207: the if / elif chain that picks the handler.
Dispatch(i) ==
    IF csv_df[i].target = "all" THEN "execute_all"
    ELSE IF csv_df[i].target \in CameraIds THEN "execute_cannon"
    ELSE IF csv_df[i].target \in MotorIds THEN "execute_keigan"
    ELSE "none"

\* execute_row
ExecuteRow(i) ==
    IF Dispatch(i) = "execute_all" THEN ExecuteAll(i)
    ELSE IF Dispatch(i) = "execute_cannon" THEN ExecuteCannon(i)
    ELSE IF Dispatch(i) = "execute_keigan" THEN ExecuteKeigan(i)
    ELSE RowRaised("ValueError: Invalid target", << >>)

\* time.sleep(secs) raises ValueError for a negative length.
SleepRaises(secs) == secs < 0

\* Mutant of Propagates: the loop body swallows the exception of a row.
PropagatesNever(r) == FALSE

\* An exception raised inside the for loop of test_run / run leaves the loop.
Propagates(r) == r.raised

\* csv_df.iterrows(): the rows in table order; 0 is "before the first row".
HasNext(i) == i < Len(csv_df)
NextRow(i) == i + 1

\* What one call of execute_row on row i does, in order: the handler is
\* entered, then its device calls (if any) are issued.
RowEvents(i, r) ==
    << [ev |-> "execute_row", row |-> i] >>
        \o [k \in 1 .. Len(r.call) |-> [ev |-> "device call", row |-> i]]

\* lines 387-391: the body of the loop of test_run.
TestRunIteration(i, r) == RowEvents(i, r)

\* Mutant of RunIteration: the row is executed first and the sleep follows.
RunIterationSleepLast(i, r) ==
    RowEvents(i, r) \o << [ev |-> "sleep", row |-> i] >>

\* lines 395-400: the body of the loop of run.
RunIteration(i, r) ==
    << [ev |-> "sleep", row |-> i] >> \o RowEvents(i, r)

\* The end of one loop iteration that called execute_row on row i.
AfterRow(m, i, r) ==
    /\ visited' = [visited EXCEPT ![m] =
                      Append(@, [row |-> i, raised |-> r.raised,
                                 handler |-> Dispatch(i), exc |-> r.exc])]
    /\ devcalls' = [devcalls EXCEPT ![m] = @ \o r.call]
    /\ applied' = [applied EXCEPT ![m] = @ \o r.change]
    /\ IF Propagates(r)
       THEN /\ result' = [result EXCEPT ![m] = "aborted"]
            /\ mode' = "-"
            /\ index' = index
       ELSE IF HasNext(i)
       THEN /\ result' = result
            /\ mode' = m
            /\ index' = i
       ELSE /\ result' = [result EXCEPT ![m] = "completed"]
            /\ mode' = "-"
            /\ index' = i

\* A run method is called: each of the two is run once over the table.
Begin(m) ==
    /\ pc = "idle"
    /\ mode = "-"
    /\ result[m] = "-"
    /\ IF HasNext(0)
       THEN /\ mode' = m
            /\ result' = [result EXCEPT ![m] = "running"]
       ELSE /\ mode' = "-"
            /\ result' = [result EXCEPT ![m] = "completed"]
    /\ index' = 0
    /\ UNCHANGED << sessionVars, executorVars, resolverVars, auxVars,
                    csv_df, devresp, visited, devcalls, applied, slept, events >>

\* One iteration of the loop of test_run (dry_run in src/src/ugoku_kun).
TestRunRow ==
    /\ mode = "test_run"
    /\ HasNext(index)
    /\ LET i == NextRow(index)
       IN  /\ AfterRow("test_run", i, ExecuteRow(i))
           /\ events' = [events EXCEPT !["test_run"] = @ \o TestRunIteration(i, ExecuteRow(i))]
    /\ UNCHANGED << sessionVars, executorVars, resolverVars, auxVars, csv_df, devresp, slept >>

\* One iteration of the loop of run: time.sleep(row["wait_time"]) first.
RunRow ==
    /\ mode = "run"
    /\ HasNext(index)
    /\ LET i == NextRow(index)
       IN  IF SleepRaises(csv_df[i].wait_time)
           THEN /\ result' = [result EXCEPT !["run"] = "aborted"]
                /\ mode' = "-"
                /\ UNCHANGED << index, visited, devcalls, applied, slept, events >>
           ELSE /\ slept' = [slept EXCEPT !["run"] = Append(@, [row |-> i, secs |-> csv_df[i].wait_time])]
                /\ events' = [events EXCEPT !["run"] = @ \o RunIteration(i, ExecuteRow(i))]
                /\ AfterRow("run", i, ExecuteRow(i))
    /\ UNCHANGED << sessionVars, executorVars, resolverVars, auxVars, csv_df, devresp >>

Tables == SeqsUpTo(Rows, MaxRows)

InitRun ==
    /\ SessionInit({<< >>})
    /\ max_attemts = DefaultMaxAttempts
    /\ wait_time = DefaultWaitTime
    /\ ExecutorIdle
    /\ ResolverIdle
    /\ csv_df \in Tables
    /\ devresp \in [1 .. Len(csv_df) -> {"ok", "fail"}]
    /\ \A i \in 1 .. Len(csv_df) : ~CallsDevice(csv_df[i]) => devresp[i] = "ok"
    /\ EngineIdle
    /\ engine = "constructed"
    /\ task_csv_path = "tasks.csv"
    /\ csv_headers = Range(must_have_headers)
    /\ task_id_list = [i \in 1 .. Len(csv_df) |-> i]
    /\ loaded = NotLoaded
    /\ built = NotBuilt
    /\ MotorIdle
    /\ CameraIdle
    /\ fleet = NoFleet

NextRun ==
    \/ \E m \in Modes : Begin(m)
    \/ TestRunRow
    \/ RunRow

SpecRun == InitRun /\ [][NextRun]_vars

(***************************************************************************)
(* Properties of the dispatch engine (checked under SpecRun).              *)
(***************************************************************************)
IsPrefix(s, t) == Len(s) <= Len(t) /\ \A i \in 1 .. Len(s) : s[i] = t[i]

Finished(m) == result[m] \in {"completed", "aborted"}

\* The rows among 1..k whose handler changes device state when it is run.
ChangingRows(k) == {j \in 1 .. k : CallsDevice(csv_df[j]) /\ devresp[j] = "ok"}

C9_State(m) ==
    LET v == visited[m]
    IN  \* strictly in table order, each row at most once
        /\ \A j \in 1 .. Len(v) : v[j].row = j
        \* a row that raised is the last row executed and the run is over
        /\ \A j \in 1 .. Len(v) :
              v[j].raised => (j = Len(v) /\ result[m] = "aborted" /\ mode # m)
        /\ result[m] = "completed" =>
              (Len(v) = Len(csv_df) /\ \A j \in 1 .. Len(v) : ~v[j].raised)
        /\ result[m] = "aborted" => Len(v) <= Len(csv_df)
        \* the changes applied so far are those of the rows executed, in order
        /\ Len(applied[m]) = Cardinality(ChangingRows(Len(v)))
        /\ \A a, b \in 1 .. Len(applied[m]) :
              a < b => applied[m][a].row < applied[m][b].row
        /\ \A a \in 1 .. Len(applied[m]) : applied[m][a].row \in ChangingRows(Len(v))

\* C9: in both run modes the rows are executed strictly in table order, one at
\* a time and each at most once; when the action of row i raises the run is
\* over at once, no later row is executed, every earlier row was executed
\* exactly once, and the device changes applied before are never taken back.
C9_InOrderAbortNoRollback ==
    /\ [](\A m \in Modes : C9_State(m))
    /\ [][\A m \in Modes :
            /\ IsPrefix(applied[m], applied'[m])
            /\ IsPrefix(visited[m], visited'[m])
            /\ (Finished(m) => (visited'[m] = visited[m] /\ result'[m] = result[m]))]_vars

\* C9 witness: a timed run of two rows aborted by its second row, after the
\* first row changed a device.
C9_Witness ==
    /\ result["run"] = "aborted"
    /\ Len(csv_df) = 2
    /\ Len(visited["run"]) = 2
    /\ visited["run"][2].raised
    /\ Len(applied["run"]) = 1

\* C10 (as claimed): on the same table and the same device responses the dry
\* run and the timed run visit the same rows in the same order, issue the same
\* device calls and end in the same outcome.
C10_DryRunEqualsTimedRun ==
    (Finished("test_run") /\ Finished("run")) =>
        /\ visited["test_run"] = visited["run"]
        /\ devcalls["test_run"] = devcalls["run"]
        /\ result["test_run"] = result["run"]

RECURSIVE SumSecs(_)
SumSecs(sl) == IF sl = << >> THEN 0 ELSE sl[1].secs + SumSecs(Tail(sl))

RECURSIVE SumWait(_)
SumWait(t) == IF t = << >> THEN 0 ELSE t[1].wait_time + SumWait(Tail(t))

Positions(m, e, i) == {k \in 1 .. Len(events[m]) : events[m][k] = [ev |-> e, row |-> i]}

\* C11: in a timed run the sleep of row i's wait_time comes after everything
\* of row i-1 and before row i is executed and before its device calls; a
\* completed timed run has slept at least the sum of all wait_time; a run
\* aborted at row i has slept for no later row; a dry run never sleeps.
C11_SleepBeforeEachRow ==
    /\ \A i \in 1 .. Len(visited["run"]) :
          /\ Cardinality(Positions("run", "sleep", i)) = 1
          /\ \A k \in 1 .. Len(events["run"]) : \A s \in Positions("run", "sleep", i) :
                /\ (events["run"][k].row < i) => k < s
                /\ (events["run"][k].row = i /\ events["run"][k].ev # "sleep") => s < k
          /\ slept["run"][i] = [row |-> i, secs |-> csv_df[i].wait_time]
    /\ Len(slept["run"]) = Len(visited["run"])
    /\ result["run"] = "completed" =>
          (Len(slept["run"]) = Len(csv_df) /\ SumSecs(slept["run"]) >= SumWait(csv_df))
    /\ result["run"] = "aborted" =>
          \A k \in 1 .. Len(events["run"]) : events["run"][k].row <= Len(visited["run"])
    /\ slept["test_run"] = << >>
    /\ \A k \in 1 .. Len(events["test_run"]) : events["test_run"][k].ev # "sleep"

\* C11 witness: a completed timed run of two rows that slept before each row
\* and called a device in the second row; the dry run of the table is over too.
C11_Witness ==
    /\ result["run"] = "completed"
    /\ result["test_run"] = "completed"
    /\ Len(csv_df) = 2
    /\ csv_df[1].wait_time = 1 /\ csv_df[2].wait_time = 1
    /\ CallsDevice(csv_df[2])
    /\ Len(slept["run"]) = 2
    /\ Len(events["test_run"]) >= 2

DeviceCallsOf(m, i) == Positions(m, "device call", i)

\* C14: execute_row checks "all" first, then the camera ids, then the motor
\* ids, and runs exactly that one handler; a row whose target is none of them
\* fails with ValueError 'Invalid target', calls no device, changes no device
\* state, and is not skipped: the run is aborted at that row.
C14_TargetResolution ==
    \A m \in Modes : \A j \in 1 .. Len(visited[m]) :
        LET t == csv_df[j].target
            e == visited[m][j]
        IN  /\ t = "all" => e.handler = "execute_all"
            /\ (t # "all" /\ t \in CameraIds) => e.handler = "execute_cannon"
            /\ (t # "all" /\ t \notin CameraIds /\ t \in MotorIds)
                  => e.handler = "execute_keigan"
            /\ (t # "all" /\ t \notin CameraIds /\ t \notin MotorIds)
                  => /\ e.handler = "none"
                     /\ e.raised
                     /\ e.exc = "ValueError: Invalid target"
                     /\ DeviceCallsOf(m, j) = {}
                     /\ \A a \in 1 .. Len(applied[m]) : applied[m][a].row # j
                     /\ result[m] = "aborted"
                     /\ j = Len(visited[m])

\* C14 witness: an id listed as camera and as motor went to the camera
\* handler, then a row with an unknown target aborted the run.
C14_Witness ==
    /\ Len(csv_df) = 2
    /\ csv_df[1].target = "both" /\ csv_df[1].action = "get"
    /\ csv_df[2].target = "desk"
    /\ Len(visited["run"]) = 2
    /\ visited["run"][1].handler = "execute_cannon"
    /\ visited["run"][2].exc = "ValueError: Invalid target"
    /\ result["run"] = "aborted"

\* The actions a handler supports.
Supported(h) ==
    IF h = "execute_all" THEN {"sleep"}
    ELSE IF h = "execute_cannon"
    THEN {"get", "post", "put", "delete", "shutter", "aperture", "exposure", "iso",
          "color_temperature", "white_balance", "shutter_speed"}
    ELSE IF h = "execute_keigan" THEN {"cw", "ccw", "speed"}
    ELSE {}

\* C15: a row whose target resolves to a handler but whose action that handler
\* does not support fails with ValueError 'Invalid action', makes no device
\* call, and the run stops at that row.
C15_InvalidActionStops ==
    \A m \in Modes : \A j \in 1 .. Len(visited[m]) :
        LET e == visited[m][j]
        IN  (e.handler # "none" /\ csv_df[j].action \notin Supported(e.handler))
              => /\ e.raised
                 /\ e.exc = "ValueError: Invalid action"
                 /\ DeviceCallsOf(m, j) = {}
                 /\ \A a \in 1 .. Len(devcalls[m]) : devcalls[m][a].row # j
                 /\ result[m] = "aborted"
                 /\ j = Len(visited[m])
                 /\ mode # m

\* C15 witness: a dry run stopped at a motor row with a camera action, after
\* an "all" row.
C15_Witness ==
    /\ Len(csv_df) = 2
    /\ csv_df[1].target = "all" /\ csv_df[1].action = "sleep"
    /\ csv_df[2].target = "motor1" /\ csv_df[2].action = "get"
    /\ Len(visited["test_run"]) = 2
    /\ visited["test_run"][2].exc = "ValueError: Invalid action"
    /\ result["test_run"] = "aborted"

\* The seconds slept in a trace.
RECURSIVE TraceSecs(_)
TraceSecs(t) == IF t = << >> THEN 0 ELSE t[1].secs + TraceSecs(Tail(t))

CallsIn(t) == Cardinality({k \in 1 .. Len(t) : t[k].ev = "call"})

\* C27: within one executor call there is exactly one sleep of wait_time
\* immediately before every attempt but the first, none before the first and
\* none after the last: a call of a attempts sleeps (a - 1) * wait_time, and
\* no sleep is longer than another.
C27_FixedDelay ==
    /\ CallsIn(trace) = calls
    /\ trace # << >> =>
          /\ trace[1].ev = "call"
          /\ trace[Len(trace)].ev = "call"
          /\ TraceSecs(trace) = (calls - 1) * wait_time
          /\ Len(trace) = calls + (calls - 1)
    /\ \A k \in 1 .. Len(trace) :
          /\ trace[k].ev = "sleep" =>
                /\ trace[k].secs = wait_time
                /\ k < Len(trace) /\ trace[k + 1].ev = "call"
                /\ k > 1 /\ trace[k - 1].ev = "call"
          /\ (trace[k].ev = "call" /\ k > 1) => trace[k - 1].ev = "sleep"
    /\ sleeps = Len(trace) - calls

\* C27 witness: a call of three attempts with wait_time 3 has ended.
C27_Witness ==
    /\ pc = "done"
    /\ wait_time = 3
    /\ calls = 3
    /\ Len(trace) = 5
    /\ TraceSecs(trace) = 6

(***************************************************************************)
(* Loading the task table: UgokuKun.load_task_csv (ugoku_kun.py:140-180)   *)
(* and the part of UgokuKun.__init__ that calls it (lines 92-95).          *)
(* A csv file is its header set and its task_id column; the other cells    *)
(* play no part in the load.                                               *)
(***************************************************************************)
TaskIds == {1, 2}
AllHeaders == Range(must_have_headers) \cup {"note"}

\* Header sets: the required headers with none, one or two of them left out,
\* with or without a further column.
CsvColumns ==
    {(Range(must_have_headers) \ {a, b}) \cup extra :
        a \in AllHeaders, b \in AllHeaders, extra \in {{}, {"note"}}}

CsvFiles == [columns : CsvColumns, ids : SeqsUpTo(TaskIds, MaxRows)]

\* pd.read_csv(task_csv_path, header=0, index_col=None): the table read.
ReadCsv(f) ==
    [columns |-> f.columns,
     ids     |-> IF "task_id" \in f.columns THEN f.ids ELSE << >>,
     rows    |-> [i \in 1 .. Len(f.ids) |-> [wait_time |-> 0, target |-> "all", action |-> "sleep"]]]

\* Mutant of MissingHeader: the headers are checked from the last to the first.
RECURSIVE MissingHeaderFromEnd(_, _)
MissingHeaderFromEnd(headers, k) ==
    IF Len(must_have_headers) - k + 1 < 1 THEN "-"
    ELSE IF must_have_headers[Len(must_have_headers) - k + 1] \notin headers
    THEN must_have_headers[Len(must_have_headers) - k + 1]
    ELSE MissingHeaderFromEnd(headers, k + 1)

\* for header in must_have_headers: if header not in csv_headers: raise ...
\* The header the loop raises on from position k on, "-" when it runs through.
RECURSIVE MissingHeader(_, _)
MissingHeader(headers, k) ==
    IF k > Len(must_have_headers) THEN "-"
    ELSE IF must_have_headers[k] \notin headers THEN must_have_headers[k]
    ELSE MissingHeader(headers, k + 1)

\* len(task_id_list) != len(set(task_id_list))
HasDuplicates(l) == Len(l) # Cardinality(Range(l))

\* Lines 161-180: the checks made after the table was read and assigned.
Validate(t) ==
    IF MissingHeader(t.columns, 1) # "-"
    THEN [kind |-> "raise", exc |-> "ValueError: Missing header: " \o MissingHeader(t.columns, 1)]
    ELSE IF HasDuplicates(t.ids)
    THEN [kind |-> "raise", exc |-> "ValueError: task_id must be unique."]
    ELSE [kind |-> "return", exc |-> "-"]

LoadOutcome(f) == [kind |-> Validate(ReadCsv(f)).kind, exc |-> Validate(ReadCsv(f)).exc, file |-> f]

\* Lines 158-159: the path and the table are assigned before any check.
Install(path, f) ==
    /\ task_csv_path' = path
    /\ csv_df' = ReadCsv(f).rows
    /\ devresp' = [i \in 1 .. Len(f.ids) |-> "ok"]
    /\ csv_headers' = ReadCsv(f).columns
    /\ task_id_list' = ReadCsv(f).ids

\* self.devices[kind] of the descriptor file: the key is not there
\* ("missing"), it maps to an empty dict ("empty"), or to one device ("some").
DescriptorKinds == {"missing", "empty", "some"}

\* Line 128: if not self.cannon_cameras
NoCameras(cannon) == cannon = "empty"

\* lines 120-124: one KeiganWrapper(...) per entry of the descriptor.
MotorCalls(keigan) == IF keigan = "some" THEN << "KeiganWrapper" >> ELSE << >>

\* lines 130-138: one CannonWrapper(...) per entry of the descriptor.
CameraCalls(cannon) == IF cannon = "some" THEN << "CannonWrapper" >> ELSE << >>

\* Mutant of BringUp: the camera sessions are constructed first.
BringUpCamerasFirst(keigan, cannon) == CameraCalls(cannon) \o MotorCalls(keigan)

\* lines 117-138: the motor loop runs to its end before the camera loop.
BringUp(keigan, cannon) == MotorCalls(keigan) \o CameraCalls(cannon)

\* UgokuKun.__init__, lines 92-138, after the table load returned kind/exc:
\* how the constructor ends, the step it ended in, the descriptor it read
\* once the load had returned, whether the notice of line 119 was logged,
\* and the session constructors it called, in order.  devicesOk: the
\* sessions' constructors return.
BuildOutcome(load, keigan, cannon, devicesOk) ==
    LET b == [NotBuilt EXCEPT !.keigan = keigan, !.cannon = cannon]
        n == [b EXCEPT !.notice = (keigan = "empty")]
    IN  IF load.kind = "raise"
        THEN [NotBuilt EXCEPT !.kind = "raise", !.exc = load.exc, !.stage = "load"]
        ELSE IF keigan = "missing"
        THEN [b EXCEPT !.kind = "raise", !.exc = "KeyError: keigan", !.stage = "motors"]
        ELSE IF keigan = "some" /\ ~devicesOk
        THEN [n EXCEPT !.kind = "raise", !.exc = "DeviceError", !.stage = "motors",
                       !.calls = MotorCalls(keigan)]
        ELSE IF cannon = "missing"
        THEN [n EXCEPT !.kind = "raise", !.exc = "KeyError: cannon", !.stage = "cameras",
                       !.calls = MotorCalls(keigan)]
        ELSE IF NoCameras(cannon)
        THEN [n EXCEPT !.kind = "raise",
                       !.exc = "ValueError: No devices found in the device json file.",
                       !.stage = "cameras", !.calls = MotorCalls(keigan)]
        ELSE IF ~devicesOk
        THEN [n EXCEPT !.kind = "raise", !.exc = "DeviceError", !.stage = "sessions",
                       !.calls = BringUp(keigan, cannon)]
        ELSE [n EXCEPT !.kind = "return", !.stage = "sessions",
                       !.calls = BringUp(keigan, cannon)]

\* UgokuKun(...): __init__ loads the table, then reads the descriptor's motors
\* and cameras; an exception of any step leaves the caller without an object.
Construct(f, keigan, cannon, devicesOk) ==
    /\ engine = "absent"
    /\ loaded' = LoadOutcome(f)
    /\ built' = BuildOutcome(LoadOutcome(f), keigan, cannon, devicesOk)
    /\ IF BuildOutcome(LoadOutcome(f), keigan, cannon, devicesOk).kind = "return"
       THEN /\ engine' = "constructed"
            /\ Install("tasks.csv", f)
       ELSE UNCHANGED << engine, task_csv_path, csv_df, devresp, csv_headers, task_id_list >>
    /\ UNCHANGED << sessionVars, executorVars, resolverVars, motorVars, cameraVars, fleet,
                    mode, index, visited, devcalls, applied, slept, events, result >>

\* engine.load_task_csv(path) on an existing engine; the caller catches what
\* it raises and keeps the engine.
load_task_csv(f) ==
    /\ engine = "constructed"
    /\ mode = "-"
    /\ Install("next.csv", f)
    /\ loaded' = LoadOutcome(f)
    /\ UNCHANGED << sessionVars, executorVars, resolverVars, motorVars, cameraVars, engine,
                    built, fleet, mode, index, visited, devcalls, applied, slept, events, result >>

InitLoad ==
    /\ SessionInit({<< >>})
    /\ max_attemts = DefaultMaxAttempts
    /\ wait_time = DefaultWaitTime
    /\ ExecutorIdle
    /\ ResolverIdle
    /\ csv_df = << >>
    /\ devresp = << >>
    /\ EngineIdle
    /\ LoaderIdle
    /\ MotorIdle
    /\ CameraIdle
    /\ fleet = NoFleet

NextLoad ==
    \/ \E f \in CsvFiles, devicesOk \in BOOLEAN : Construct(f, "some", "some", devicesOk)
    \/ \E f \in CsvFiles : load_task_csv(f)

SpecLoad == InitLoad /\ [][NextLoad]_vars

\* The task files an engine is constructed from under every descriptor.
BuildFiles == {f \in CsvFiles : Len(f.ids) <= 1}

NextBuild ==
    \E f \in BuildFiles, keigan \in DescriptorKinds, cannon \in DescriptorKinds,
       devicesOk \in BOOLEAN : Construct(f, keigan, cannon, devicesOk)

SpecBuild == InitLoad /\ [][NextBuild]_vars

Missing(f) == Range(must_have_headers) \ f.columns
Position(h) == CHOOSE k \in 1 .. Len(must_have_headers) : must_have_headers[k] = h
SharedId(f) == \E i, j \in 1 .. Len(f.ids) : i # j /\ f.ids[i] = f.ids[j]

\* C16: load_task_csv raises and returns no table when a required column is
\* absent (the error names the first absent column in the order task_id,
\* wait_time, target, action, param, payload) or when two rows share a
\* task_id; a source with the six columns, unique ids and any further
\* columns is returned.
C16_LoadValidation ==
    loaded.kind # "none" =>
        /\ Missing(loaded.file) # {} =>
              /\ loaded.kind = "raise"
              /\ \E h \in Missing(loaded.file) :
                    /\ \A g \in Missing(loaded.file) : Position(h) <= Position(g)
                    /\ loaded.exc = "ValueError: Missing header: " \o h
        /\ (Missing(loaded.file) = {} /\ SharedId(loaded.file)) =>
              /\ loaded.kind = "raise"
              /\ loaded.exc = "ValueError: task_id must be unique."
        /\ (Missing(loaded.file) = {} /\ ~SharedId(loaded.file)) =>
              /\ loaded.kind = "return"
              /\ engine = "constructed" =>
                    (csv_headers = loaded.file.columns /\ task_id_list = loaded.file.ids)

\* C16 witness: a load was rejected for two absent columns, naming wait_time.
C16_Witness ==
    /\ engine = "constructed"
    /\ Missing(loaded.file) = {"wait_time", "param"}
    /\ "note" \in loaded.file.columns
    /\ loaded.kind = "raise"
    /\ loaded.exc = "ValueError: Missing header: wait_time"

\* The accepting side of C16: a file with a further column and two distinct
\* ids was returned and installed.
C16_Accepted ==
    /\ engine = "constructed"
    /\ loaded.kind = "return"
    /\ "note" \in csv_headers
    /\ Len(task_id_list) = 2

\* C17: whenever an engine exists, its installed table has the six required
\* columns and pairwise distinct task_id values, also after a load_task_csv
\* call that raised and whose error the caller caught.
C17_InstalledTableValid ==
    engine = "constructed" =>
        /\ Range(must_have_headers) \subseteq csv_headers
        /\ ~HasDuplicates(task_id_list)

(***************************************************************************)
(* One motor: KeiganWrapper.turn_relative (keigan_wrapper.py:163-191) and  *)
(* the "speed" action of UgokuKun.execute_keigan (ugoku_kun.py:353-356).   *)
(* Angles are kept as rational multiples of pi, durations as rationals.    *)
(***************************************************************************)
MaxSpeed == 2      \* self.speed ranges over 0..MaxSpeed
MaxDegrees == 1    \* degrees ranges over -MaxDegrees..MaxDegrees
MaxTurns == 2      \* turn_relative calls of one behaviour

Abs(x) == IF x < 0 THEN -x ELSE x

\* utils.deg2rad(degrees): degrees * pi / 180, as the multiple of pi.
Deg2Rad(d) == [num |-> d, den |-> 180]

\* Mutant of Signed: the angle is never negated.
SignedNeverNegated(clock_wise, degrees) == degrees

\* if clock_wise: degrees = -degrees
Signed(clock_wise, degrees) == IF clock_wise THEN -degrees ELSE degrees

\* abs(degrees / (self.speed * 6))
WaitTime(degrees, rpm) == [num |-> Abs(degrees), den |-> Abs(rpm * 6)]

notMotorVars == << sessionVars, executorVars, resolverVars, engineVars, loaderVars, cameraVars,
                  fleet >>

MotorEvent(ev, val) == [call |-> Len(turn_calls), ev |-> ev, val |-> val]
Unit == [num |-> 0, den |-> 1]

\* turn_relative(clock_wise, degrees) up to the move: self.motor.enable_action()
\* and the negation of the local degrees.
TurnRelative(clock_wise, d) ==
    /\ turn.pc \in {"idle", "done", "raised"}
    /\ Len(turn_calls) < MaxTurns
    /\ turn_calls' = Append(turn_calls, [clock_wise |-> clock_wise, degrees |-> d])
    /\ turn' = [pc |-> "enabled", clock_wise |-> clock_wise, degrees |-> Signed(clock_wise, d)]
    /\ motor_log' = Append(motor_log, [call |-> Len(turn_calls) + 1, ev |-> "enable_action", val |-> Unit])
    /\ UNCHANGED << speed, device_speed, motor_init, notMotorVars >>

\* self.motor.move_by_dist_wait(utils.deg2rad(degrees)): the driver call
\* returns, or raises (serial failure) and ends turn_relative.
MoveByDistWait(ok) ==
    /\ turn.pc = "enabled"
    /\ motor_log' = Append(motor_log, MotorEvent("move_by_dist_wait", Deg2Rad(turn.degrees)))
    /\ turn' = [turn EXCEPT !.pc = IF ok THEN "moved" ELSE "raised"]
    /\ UNCHANGED << speed, device_speed, turn_calls, motor_init, notMotorVars >>

\* wait_time = abs(degrees / (self.speed * 6)); time.sleep(wait_time); return.
\* A speed of 0 raises ZeroDivisionError instead.
SleepAndReturn ==
    /\ turn.pc = "moved"
    /\ IF speed = 0
       THEN /\ turn' = [turn EXCEPT !.pc = "raised"]
            /\ motor_log' = motor_log
       ELSE /\ turn' = [turn EXCEPT !.pc = "done"]
            /\ motor_log' = Append(motor_log, MotorEvent("sleep", WaitTime(turn.degrees, speed)))
    /\ UNCHANGED << speed, device_speed, turn_calls, motor_init, notMotorVars >>

\* execute_keigan, action "speed": motor.set_speed(...) on the driver only;
\* self.speed keeps the constructor's value.
SetSpeed(rpm) ==
    /\ turn.pc \in {"idle", "done", "raised"}
    /\ device_speed' = rpm
    /\ UNCHANGED << speed, turn, turn_calls, motor_log, motor_init, notMotorVars >>

InitMotor ==
    /\ SessionInit({<< >>})
    /\ max_attemts = DefaultMaxAttempts
    /\ wait_time = DefaultWaitTime
    /\ ExecutorIdle
    /\ ResolverIdle
    /\ csv_df = << >>
    /\ devresp = << >>
    /\ EngineIdle
    /\ LoaderIdle
    /\ CameraIdle
    /\ fleet = NoFleet
    /\ speed \in 0 .. MaxSpeed
    /\ device_speed = speed
    /\ turn = NoTurn
    /\ turn_calls = << >>
    /\ motor_log = << >>
    /\ motor_init = NoKeigan

NextMotor ==
    \/ \E cw \in BOOLEAN, d \in -MaxDegrees .. MaxDegrees : TurnRelative(cw, d)
    \/ \E ok \in BOOLEAN : MoveByDistWait(ok)
    \/ SleepAndReturn
    \/ \E rpm \in 1 .. MaxSpeed : SetSpeed(rpm)

SpecMotor == InitMotor /\ [][NextMotor]_vars

(***************************************************************************)
(* KeiganWrapper.__init__: the bring-up of one motor session.              *)
(***************************************************************************)
\* serial.tools.list_ports.comports() and the port argument.
SerialPorts == {"/dev/ttyUSB0", "COM3"}

\* os.name
OsNames == {"nt", "posix"}

\* Mutant of PortAvailable: the port is not checked against the list.
PortAvailableUnchecked(port, ports) == TRUE

\* line 69: port in available_ports
PortAvailable(port, ports) == port \in ports

\* lines 98-113: what frees the port under each os.name.
ReleaseCall(os) == IF os = "nt" THEN "serial.Serial.close" ELSE "fuser -k"

\* lines 107-113: the CalledProcessError of fuser is caught and printed; the
\* SerialException of serial.Serial(...) on Windows is not.
ReleaseOutcomes(os) == IF os = "nt" THEN {"ok", "SerialException"} ELSE {"ok", "CalledProcessError"}
ReleaseRaises(os, how) == os = "nt" /\ how # "ok"

\* connect_motor, lines 146-154: USBController(...) returns, raises, or is cut
\* off by the decorator after 5 seconds.
ConnectOutcomes == {"ok", "timeout", "error"}
ConnectExc(how) ==
    IF how = "timeout" THEN "serial.SerialTimeoutException"
    ELSE IF how = "error" THEN "serial.SerialException"
    ELSE "-"

\* Mutant of NextDriverStep: the speed is set before the LED is zeroed.
NextDriverStepSpeedFirst(step) ==
    IF step = "connect_motor" THEN "set_speed"
    ELSE IF step = "set_speed" THEN "set_led"
    ELSE IF step = "set_led" THEN "disable_action"
    ELSE IF step = "disable_action" THEN "set_curve_type"
    ELSE "ready"

\* lines 119-137: the statement that follows each driver statement.
NextDriverStep(step) ==
    IF step = "connect_motor" THEN "set_led"
    ELSE IF step = "set_led" THEN "disable_action"
    ELSE IF step = "disable_action" THEN "set_speed"
    ELSE IF step = "set_speed" THEN "set_curve_type"
    ELSE "ready"

DriverSteps == {"set_led", "disable_action", "set_speed", "set_curve_type"}

\* KeiganWrapper(port, speed) up to line 75, with the ports the system
\* enumerates and its os.name.
KeiganInit(port, ports, os, rpm) ==
    /\ motor_init.pc = "absent"
    /\ IF ~PortAvailable(port, ports)
       THEN /\ motor_init' = [motor_init EXCEPT !.pc = "failed", !.port = port, !.ports = ports,
                                        !.os = os, !.exc = "ValueError: Port not available"]
            /\ speed' = speed
       ELSE /\ motor_init' = [motor_init EXCEPT !.pc = "release", !.port = port, !.ports = ports,
                                        !.os = os]
            /\ speed' = rpm
    /\ UNCHANGED << device_speed, turn, turn_calls, motor_log, notMotorVars >>

\* lines 98-113
ReleasePort(how) ==
    /\ motor_init.pc = "release"
    /\ how \in ReleaseOutcomes(motor_init.os)
    /\ \E k \in {[motor_init EXCEPT !.log = Append(@, ReleaseCall(motor_init.os))]} :
          motor_init' = IF ReleaseRaises(motor_init.os, how)
                    THEN [k EXCEPT !.pc = "failed", !.exc = "serial.SerialException"]
                    ELSE [k EXCEPT !.pc = "connect_motor"]
    /\ UNCHANGED << speed, device_speed, turn, turn_calls, motor_log, notMotorVars >>

\* lines 118-119 and connect_motor
ConnectMotor(how) ==
    /\ motor_init.pc = "connect_motor"
    /\ \E k \in {[motor_init EXCEPT !.log = Append(@, "USBController"), !.connect = how]} :
          motor_init' = IF how = "ok"
                    THEN [k EXCEPT !.pc = NextDriverStep("connect_motor")]
                    ELSE [k EXCEPT !.pc = "failed", !.exc = ConnectExc(how)]
    /\ UNCHANGED << speed, device_speed, turn, turn_calls, motor_log, notMotorVars >>

\* lines 122-137: one statement on self.motor; ok: the driver call returns.
DriverStep(ok) ==
    /\ motor_init.pc \in DriverSteps
    /\ \E k \in {[motor_init EXCEPT !.log = Append(@, motor_init.pc)]} :
          motor_init' = IF ok THEN [k EXCEPT !.pc = NextDriverStep(motor_init.pc)]
                    ELSE [k EXCEPT !.pc = "failed", !.exc = "driver error"]
    /\ device_speed' = IF ok /\ motor_init.pc = "set_speed" THEN speed ELSE device_speed
    /\ UNCHANGED << speed, turn, turn_calls, motor_log, notMotorVars >>

InitKeigan ==
    /\ SessionInit({<< >>})
    /\ max_attemts = DefaultMaxAttempts
    /\ wait_time = DefaultWaitTime
    /\ ExecutorIdle
    /\ ResolverIdle
    /\ csv_df = << >>
    /\ devresp = << >>
    /\ EngineIdle
    /\ LoaderIdle
    /\ CameraIdle
    /\ fleet = NoFleet
    /\ speed = DefaultSpeed
    /\ device_speed = 0
    /\ turn = NoTurn
    /\ turn_calls = << >>
    /\ motor_log = << >>
    /\ motor_init = [NoKeigan EXCEPT !.pc = "absent"]

NextKeigan ==
    \/ \E port \in SerialPorts, ports \in SUBSET SerialPorts, os \in OsNames,
          rpm \in 1 .. MaxSpeed : KeiganInit(port, ports, os, rpm)
    \/ \E how \in {"ok", "SerialException", "CalledProcessError"} : ReleasePort(how)
    \/ \E how \in ConnectOutcomes : ConnectMotor(how)
    \/ \E ok \in BOOLEAN : DriverStep(ok)

SpecKeigan == InitKeigan /\ [][NextKeigan]_vars

\* The log entries of call n, in order.
RECURSIVE LogOf(_, _)
LogOf(n, k) ==
    IF k > Len(motor_log) THEN << >>
    ELSE IF motor_log[k].call = n THEN << motor_log[k] >> \o LogOf(n, k + 1)
    ELSE LogOf(n, k + 1)

CallDone(n) ==
    /\ n \in 1 .. Len(turn_calls)
    /\ Len(LogOf(n, 1)) = 3
SameRational(a, b) == a.num * b.den = b.num * a.den

\* C20: with speed s > 0, turn_relative enables motion, then issues one move
\* of -d when clock_wise and of +d otherwise, and only after it sleeps
\* |d| / (s * 6) seconds; a clockwise turn by d issues the same move and the
\* same sleep as a counter-clockwise turn by -d.
C20_TurnRelative ==
    speed > 0 =>
        /\ \A n \in 1 .. Len(turn_calls) :
              LET l == LogOf(n, 1)
                  c == turn_calls[n]
              IN  /\ Len(l) \in 1 .. 3
                  /\ l[1].ev = "enable_action"
                  /\ Len(l) >= 2 =>
                        /\ l[2].ev = "move_by_dist_wait"
                        /\ SameRational(l[2].val,
                              [num |-> IF c.clock_wise THEN -c.degrees ELSE c.degrees, den |-> 180])
                  /\ Len(l) = 3 =>
                        /\ l[3].ev = "sleep"
                        /\ l[3].val.den # 0
                        /\ SameRational(l[3].val, [num |-> Abs(c.degrees), den |-> speed * 6])
                  /\ (n < Len(turn_calls) \/ turn.pc = "done") => Len(l) \in {2, 3}
                  /\ (n = Len(turn_calls) /\ turn.pc = "done") => Len(l) = 3
        /\ \A n, m \in 1 .. Len(turn_calls) :
              (/\ CallDone(n) /\ CallDone(m)
               /\ turn_calls[n].clock_wise /\ ~turn_calls[m].clock_wise
               /\ turn_calls[m].degrees = -turn_calls[n].degrees)
              => /\ LogOf(n, 1)[2].val = LogOf(m, 1)[2].val
                 /\ LogOf(n, 1)[3].val = LogOf(m, 1)[3].val

\* C20 witness: a clockwise turn by 1 and a counter-clockwise turn by -1 both
\* returned, after the driver speed was changed.
C20_Witness ==
    /\ speed > 0
    /\ device_speed # speed
    /\ Len(turn_calls) = 2
    /\ turn_calls[1] = [clock_wise |-> TRUE, degrees |-> 1]
    /\ turn_calls[2] = [clock_wise |-> FALSE, degrees |-> -1]
    /\ CallDone(1) /\ CallDone(2)
    /\ turn.pc = "done"

(***************************************************************************)
(* One camera session as the engine constructs and drives it:              *)
(* CannonWrapper.__init__ (cannon_wrapper.py:211-232) step by step, and    *)
(* set_shooting_settings / get_shooting_param (lines 311-394).             *)
(* A logical path is a sequence of path segments; the resolver treats a    *)
(* segment as it treats a character.                                       *)
(***************************************************************************)
\* self.uri, the root of the API.
Uri == << "/ccapi" >>

DeviceInfoPath == << "/deviceinformation" >>
SettingsPath == << "/shooting", "/settings" >>
AutoPowerOffPath == << "/functions", "/autopoweroff" >>
DateTimePath == << "/functions", "/datetime" >>
\* f"/shooting/settings/{param_key[param]}"
ParamPath(k) == SettingsPath \o << "/" \o k >>

\* shutter, line 531
ShutterPath == << "/shooting", "/control", "/shutterbutton" >>

BaseEndpoints ==
    << DeviceInfoPath, SettingsPath, AutoPowerOffPath, DateTimePath,
       ParamPath("tv"), ParamPath("av"), ParamPath("exposure"), ParamPath("wb"),
       ParamPath("colortemperature"), ShutterPath >>

UrlsOf(v, paths) == [i \in 1 .. Len(paths) |-> Url(v, paths[i])]

\* Root responses of a device: the full list under one version tag with two
\* endpoints repeated under a second tag; a list without the iso and
\* datetime endpoints (and without the shutter button); a list without
\* deviceinformation.
CameraRoots ==
    {<< [tag |-> 1, apis |-> UrlsOf(1, BaseEndpoints \o << ParamPath("iso") >>)],
        [tag |-> 2, apis |-> UrlsOf(2, << SettingsPath, ParamPath("iso") >>)] >>,
     << [tag |-> 1, apis |-> UrlsOf(1, SubSeq(BaseEndpoints, 1, 3) \o SubSeq(BaseEndpoints, 5, 9))] >>,
     << [tag |-> 1, apis |-> UrlsOf(1, Tail(BaseEndpoints))] >>}

\* Bodies of GET /shooting/settings a device returns.  "S1": every ability
\* list is a, b and the colour temperature range is min 1, max 4, step 2;
\* "S2": every ability list is b and the colour temperature ability is empty;
\* "S3": as "S2" with the colour temperature range min 2, max 4, step 2.
SnapshotIds == {"S1", "S2", "S3"}

Snapshot(id) ==
    IF id = "S1"
    THEN [params   |-> [k \in WireKeys |->
                          IF k = "colortemperature"
                          THEN [value |-> IntVal(1), ability |-> << >>]
                          ELSE [value |-> StrVal("a"), ability |-> << StrVal("a"), StrVal("b") >>]],
          ct_range |-> [present |-> TRUE, min |-> 1, max |-> 4, step |-> 2]]
    ELSE [params   |-> [k \in WireKeys |->
                          IF k = "colortemperature"
                          THEN [value |-> IntVal(1), ability |-> << >>]
                          ELSE [value |-> StrVal("b"), ability |-> << StrVal("b") >>]],
          ct_range |-> IF id = "S3"
                       THEN [present |-> TRUE, min |-> 2, max |-> 4, step |-> 2]
                       ELSE [present |-> FALSE, min |-> 0, max |-> 0, step |-> 1]]

\* len(range(start, stop, step)) for step > 0.
PyRangeLen(start, stop, step) ==
    IF stop <= start THEN 0 ELSE ((stop - start - 1) \div step) + 1

\* [ct for ct in range(start, stop, step)] for step > 0.
PyRange(start, stop, step) ==
    [i \in 1 .. PyRangeLen(start, stop, step) |-> start + (i - 1) * step]

\* Lines 335-341: range(min, max + step, step).
RangeList(r) == PyRange(r.min, r.max + r.step, r.step)

\* get_shooting_param, lines 331-342: settings.json() with the colour
\* temperature ability turned into a list when it is truthy.
Normalize(snap) ==
    [snap.params EXCEPT !["colortemperature"].ability =
        IF snap.ct_range.present
        THEN [i \in DOMAIN RangeList(snap.ct_range) |-> IntVal(RangeList(snap.ct_range)[i])]
        ELSE << >>]

\* value in list
In(value, list) == \E i \in DOMAIN list : list[i] = value

\* What the device does with the attempts of one request: answers 200 at
\* once ("ok"), answers 500 once and then 200 ("retry"), or never answers
\* ("down": every attempt times out).
AnswerKinds == {"ok", "retry", "down"}

Status(code) == [type |-> "resp", exc |-> "-",
                 resp |-> [bound |-> TRUE, has_status_code |-> TRUE, status_code |-> code]]
TimedOut == [type |-> "exc", exc |-> "requests.Timeout", resp |-> NoResponse]

Answers(kind, n) ==
    [i \in 1 .. n |->
        IF kind = "ok" THEN Status(200)
        ELSE IF kind = "retry" THEN (IF i = 1 THEN Status(500) ELSE Status(200))
        ELSE IF kind = "busy" THEN Status(500)
        ELSE TimedOut]

\* The for loop of _req_handle.wrapper from attempt a on, over the answers
\* the device gives: how the wrapper ends and how many calls it made.
RECURSIVE ReqLoop(_, _, _, _)
ReqLoop(a, answers, r, n) ==
    IF ~InRange(a, n) THEN [out |-> AfterLoop(r), used |-> a]
    ELSE LET o == answers[a + 1]
         IN  IF o.type = "exc"
             THEN IF Caught(o.exc) /\ Retryable(a, n)
                  THEN ReqLoop(a + 1, answers, r, n)
                  ELSE [out |-> Raised(o.exc, r), used |-> a + 1]
             ELSE IF ~HasStatusCode(o.resp) THEN ReqLoop(a + 1, answers, o.resp, n)
             ELSE IF IsSuccess(o.resp) THEN [out |-> Returned(o.resp), used |-> a + 1]
             ELSE ReqLoop(a + 1, answers, o.resp, n)

\* _req_handle.wrapper as a whole.
ReqHandle(url, catalog, answers, n) ==
    IF ~ApiAvailable(url, catalog)
    THEN [out |-> Raised("AssertionError: API not available", NoResponse), used |-> 0]
    ELSE ReqLoop(0, answers, NoResponse, n)

NoPayload == [key |-> "-", val |-> NoneVal]
ValuePayload(v) == [key |-> "value", val |-> v]

\* http_get / http_put of the session: the outcome and the calls put on the
\* wire, each with the status it got (0: none) and the body of a 200.
HttpOf(catalog, n, m, url, payload, body, kind) ==
    LET answers == Answers(kind, n)
        h == ReqHandle(url, catalog, answers, n)
    IN  [out  |-> h.out,
         sent |-> [i \in 1 .. h.used |->
                     [method |-> m, url |-> url, payload |-> payload,
                      status |-> answers[i].resp.status_code,
                      body |-> IF answers[i].type = "resp" /\ IsSuccess(answers[i].resp)
                               THEN body ELSE "-"]]]

\* The same on the session of the camera variables.
Http(m, url, payload, body, kind) == HttpOf(api_url, max_attemts, m, url, payload, body, kind)

notCameraVars == << executorVars, resolverVars, engineVars, motorVars,
                    task_csv_path, csv_headers, task_id_list, loaded, built, fleet >>

\* Mutant of Proceeds: a failed step does not stop the constructor.
ProceedsAlways(kind) == TRUE

\* A statement of __init__ that raises ends __init__.
Proceeds(kind) == kind = "return"

\* Mutant of NextStep: the time sync comes before the auto power off.
NextStepSyncFirst(pc_, apo, sync) ==
    IF pc_ = "root" THEN "deviceinformation"
    ELSE IF pc_ = "deviceinformation" THEN "settings"
    ELSE IF pc_ = "settings" THEN (IF sync THEN "datetime" ELSE IF ~apo THEN "autopoweroff" ELSE "ready")
    ELSE IF pc_ = "datetime" THEN (IF ~apo THEN "autopoweroff" ELSE "ready")
    ELSE "ready"

\* Lines 213-232: the statement that follows the one at pc_.
NextStep(pc_, apo, sync) ==
    IF pc_ = "root" THEN "deviceinformation"
    ELSE IF pc_ = "deviceinformation" THEN "settings"
    ELSE IF pc_ = "settings" THEN (IF ~apo THEN "autopoweroff" ELSE IF sync THEN "datetime" ELSE "ready")
    ELSE IF pc_ = "autopoweroff" THEN (IF sync THEN "datetime" ELSE "ready")
    ELSE "ready"

\* The end of one statement of __init__: on to the next one, or out with the
\* exception.  UgokuKun.__init__ (lines 126-138) constructs the sessions
\* last, so the engine exists when the session's constructor has returned.
StepEnd(kind, exc) ==
    LET next == NextStep(cam.pc, last_op.auto_power_off, last_op.sync_time)
    IN  IF ~Proceeds(kind)
        THEN /\ cam' = [pc |-> "failed"]
             /\ last_op' = [last_op EXCEPT !.kind = "raise", !.exc = exc]
             /\ engine' = engine
        ELSE /\ cam' = [pc |-> next]
             /\ last_op' = [last_op EXCEPT !.kind = IF next = "ready" THEN "return" ELSE @]
             /\ engine' = IF next = "ready" THEN "constructed" ELSE engine

\* CannonWrapper(...): self.api_url = [self.uri] (line 212).  dstKnown: whether
\* time.localtime() of the controller reports a tm_isdst other than -1.
Connect(apo, sync, dstKnown) ==
    /\ cam.pc = "disconnected"
    /\ engine = "absent"
    /\ cam' = [pc |-> "root"]
    /\ api_url' = << Uri >>
    /\ last_op' = [NoOp EXCEPT !.name = "__init__", !.auto_power_off = apo,
                               !.sync_time = sync, !.dst_known = dstKnown,
                               !.kind = "running"]
    /\ UNCHANGED << available_api, max_attemts, wait_time, settings, device_info, requests,
                    engine, dumps, notCameraVars >>

\* Lines 213-218: GET of the root, then the catalog from its body.
GetRoot(root, kind) ==
    /\ cam.pc = "root"
    /\ LET h == Http("get", Uri, NoPayload, "root", kind)
       IN  /\ requests' = requests \o h.sent
           /\ IF Proceeds(h.out.kind)
              THEN /\ available_api' = root
                   /\ api_url' = Flatten(root)
              ELSE UNCHANGED << available_api, api_url >>
           /\ StepEnd(h.out.kind, h.out.exc)
    /\ UNCHANGED << max_attemts, wait_time, settings, device_info, dumps, notCameraVars >>

\* Line 219: self.device_info = self.http_get(self.get_full_uri("/deviceinformation")).json()
GetDeviceInfo(kind) ==
    /\ cam.pc = "deviceinformation"
    /\ LET r == GetFullUri(api_url, DeviceInfoPath)
           h == Http("get", r.url, NoPayload, "deviceinformation", kind)
       IN  IF r.kind = "raise"
           THEN /\ StepEnd(r.kind, r.exc)
                /\ UNCHANGED << requests, device_info >>
           ELSE /\ requests' = requests \o h.sent
                /\ device_info' = IF Proceeds(h.out.kind) THEN "deviceinformation" ELSE device_info
                /\ StepEnd(h.out.kind, h.out.exc)
    /\ UNCHANGED << sessionVars, settings, dumps, notCameraVars >>

\* Lines 223-224: self.settings = {}; self.get_shooting_param()
GetShootingParam(snap, kind) ==
    /\ cam.pc = "settings"
    /\ LET r == GetFullUri(api_url, SettingsPath)
           h == Http("get", r.url, NoPayload, snap, kind)
       IN  IF r.kind = "raise"
           THEN /\ StepEnd(r.kind, r.exc)
                /\ UNCHANGED << requests, settings >>
           ELSE /\ requests' = requests \o h.sent
                /\ settings' = IF Proceeds(h.out.kind) THEN Normalize(Snapshot(snap)) ELSE settings
                /\ StepEnd(h.out.kind, h.out.exc)
    /\ UNCHANGED << sessionVars, device_info, dumps, notCameraVars >>

\* Lines 227-228 and kill_auto_power_off.
KillAutoPowerOff(kind) ==
    /\ cam.pc = "autopoweroff"
    /\ LET r == GetFullUri(api_url, AutoPowerOffPath)
           h == Http("put", r.url, ValuePayload(StrVal("disable")), "-", kind)
       IN  IF r.kind = "raise"
           THEN /\ StepEnd(r.kind, r.exc)
                /\ UNCHANGED requests
           ELSE /\ requests' = requests \o h.sent
                /\ StepEnd(h.out.kind, h.out.exc)
    /\ UNCHANGED << sessionVars, settings, device_info, dumps, notCameraVars >>

\* Mutant of DstUnknown: the flag is not looked at.
DstNeverUnknown(known) == FALSE

\* sync_time, line 546: if now.tm_isdst == -1
DstUnknown(known) == ~known

\* Lines 231-232 and sync_time: an unknown tm_isdst raises before any request.
SyncTime(kind) ==
    /\ cam.pc = "datetime"
    /\ LET r == GetFullUri(api_url, DateTimePath)
           h == Http("put", r.url, [key |-> "datetime", val |-> NoneVal], "-", kind)
       IN  IF DstUnknown(last_op.dst_known)
           THEN /\ StepEnd("raise", "ValueError: Daylight saving time is not known")
                /\ UNCHANGED requests
           ELSE IF r.kind = "raise"
           THEN /\ StepEnd(r.kind, r.exc)
                /\ UNCHANGED requests
           ELSE /\ requests' = requests \o h.sent
                /\ StepEnd(h.out.kind, h.out.exc)
    /\ UNCHANGED << sessionVars, settings, device_info, dumps, notCameraVars >>

\* param.lower()
Lower(p) ==
    IF p = "ISO" THEN "iso"
    ELSE IF p = "TRUE" THEN "true"
    ELSE IF p = "No" THEN "no"
    ELSE p

\* Line 385: "Invalid " + param + ": " + value raises TypeError itself when
\* value is not a str.
InvalidValueError(value) ==
    IF value.t = "str" THEN "ValueError: Invalid value" ELSE "TypeError"

\* Mutant of Refreshed: the cache takes the value that was PUT.
RefreshedFromPut(before, k, value, snap) == [before EXCEPT ![k].value = value]

\* Line 392 -> lines 325-342: the cache after the refresh.
Refreshed(before, k, value, snap) == Normalize(Snapshot(snap))

\* param_key[param.lower()] ("-" for a name outside the table).
KeyOf(param) == IF Lower(param) \in DOMAIN param_key THEN param_key[Lower(param)] ELSE "-"

\* set_shooting_settings(param, value), lines 373-394, as one result: how it
\* ends, the calls it put on the wire, and the cache it leaves.
\* Mutant of Propagated: an error of the PUT is swallowed.
PutErrorSwallowed(out) == FALSE

\* Line 389: an exception of http_put leaves set_shooting_settings.
Propagated(out) == out.kind = "raise"

SetResultOf(catalog, cache, n, param, value, putKind, snap, getKind) ==
    LET k == KeyOf(param)
        r1 == GetFullUri(catalog, ParamPath(k))
        put == HttpOf(catalog, n, "put", r1.url, ValuePayload(value), "-", putKind)
        r2 == GetFullUri(catalog, SettingsPath)
        get == HttpOf(catalog, n, "get", r2.url, NoPayload, snap, getKind)
    IN  IF Lower(param) \notin DOMAIN param_key
        THEN [kind |-> "raise", exc |-> "KeyError", sent |-> << >>, settings |-> cache]
        ELSE IF ~In(value, cache[k].ability)
        THEN [kind |-> "raise", exc |-> InvalidValueError(value), sent |-> << >>, settings |-> cache]
        ELSE IF r1.kind = "raise"
        THEN [kind |-> "raise", exc |-> r1.exc, sent |-> << >>, settings |-> cache]
        ELSE IF Propagated(put.out)
        THEN [kind |-> "raise", exc |-> put.out.exc, sent |-> put.sent, settings |-> cache]
        ELSE IF r2.kind = "raise"
        THEN [kind |-> "raise", exc |-> r2.exc, sent |-> put.sent, settings |-> cache]
        ELSE IF get.out.kind = "raise"
        THEN [kind |-> "raise", exc |-> get.out.exc, sent |-> put.sent \o get.sent, settings |-> cache]
        ELSE [kind |-> "return", exc |-> "-", sent |-> put.sent \o get.sent,
              settings |-> Refreshed(cache, k, value, snap)]

\* The same on the session of the camera variables.
SetResult(param, value, putKind, snap, getKind) ==
    SetResultOf(api_url, settings, max_attemts, param, value, putKind, snap, getKind)

Scenarios ==
    [put : {"ok", "retry"}, snap : SnapshotIds, get : {"ok", "retry"}]
        \cup [put : {"ok"}, snap : {"S1"}, get : {"down"}]
        \cup [put : {"down", "busy"}, snap : {"S1"}, get : {"down"}]
        \cup [put : {"ok"}, snap : {"S1"}, get : {"busy"}]

SetParams == DOMAIN param_key \cup {"ISO", "zoom"}
SetValues == {StrVal("a"), StrVal("b"), IntVal(2), IntVal(3)}

\* A setting row of the engine (execute_cannon) on the constructed session.
SetShootingSettings(param, value, putKind, snap, getKind) ==
    /\ engine = "constructed"
    /\ cam.pc = "ready"
    /\ \E res \in {SetResult(param, value, putKind, snap, getKind)} :
          /\ requests' = res.sent
          /\ settings' = res.settings
          /\ last_op' = [NoOp EXCEPT !.name = "set_shooting_settings", !.param = param,
                                     !.value = value, !.put = putKind, !.get = getKind,
                                     !.before = settings, !.kind = res.kind, !.exc = res.exc]
    /\ dumps' = << >>
    /\ UNCHANGED << sessionVars, cam, device_info, engine, notCameraVars >>

MaxDumps    == 2    \* dump_attributes calls between two settings writes
CamAttempts == 2    \* max_attemts of the camera session

\* UgokuKun.__init__ has loaded an (empty) task table and is about to
\* construct its camera session.
InitCamera ==
    /\ available_api = << >>
    /\ api_url = << >>
    /\ max_attemts = CamAttempts
    /\ wait_time = DefaultWaitTime
    /\ ExecutorIdle
    /\ ResolverIdle
    /\ csv_df = << >>
    /\ devresp = << >>
    /\ EngineIdle
    /\ engine = "absent"
    /\ task_csv_path = "tasks.csv"
    /\ csv_headers = Range(must_have_headers)
    /\ task_id_list = << >>
    /\ loaded = NotLoaded
    /\ built = NotBuilt
    /\ MotorIdle
    /\ CameraIdle
    /\ fleet = NoFleet

NextCamera ==
    \/ \E apo \in BOOLEAN, sync \in BOOLEAN, dstKnown \in BOOLEAN : Connect(apo, sync, dstKnown)
    \/ \E root \in CameraRoots, kind \in AnswerKinds : GetRoot(root, kind)
    \/ \E kind \in AnswerKinds : GetDeviceInfo(kind)
    \/ \E snap \in SnapshotIds, kind \in AnswerKinds : GetShootingParam(snap, kind)
    \/ \E kind \in AnswerKinds : KillAutoPowerOff(kind)
    \/ \E kind \in AnswerKinds : SyncTime(kind)
    \/ \E param \in SetParams, value \in SetValues, sc \in Scenarios :
            SetShootingSettings(param, value, sc.put, sc.snap, sc.get)

SpecCamera == InitCamera /\ [][NextCamera]_vars

SetDone == last_op.name = "set_shooting_settings"
Resolves(path) == GetFullUri(api_url, path).kind = "return"
Resolved(path) == GetFullUri(api_url, path).url

\* C12: a setting operation on a parameter of the table whose value is in the
\* cached ability list, whose endpoints resolve and whose requests the device
\* answers with 200, puts exactly two calls on the wire, a PUT {"value": v} to
\* the resolved /shooting/settings/<wire key> and then a GET of
\* /shooting/settings; it returns, and the cache is then the body of that GET
\* with the colour temperature ability normalized, whatever value was PUT.
C12_PutThenRefresh ==
    (/\ SetDone
     /\ Lower(last_op.param) \in DOMAIN param_key
     /\ In(last_op.value, last_op.before[KeyOf(last_op.param)].ability)
     /\ Resolves(ParamPath(KeyOf(last_op.param)))
     /\ Resolves(SettingsPath)
     /\ last_op.put = "ok" /\ last_op.get = "ok")
    => /\ last_op.kind = "return"
       /\ Len(requests) = 2
       /\ requests[1] = [method |-> "put", url |-> Resolved(ParamPath(KeyOf(last_op.param))),
                         payload |-> [key |-> "value", val |-> last_op.value],
                         status |-> 200, body |-> "-"]
       /\ requests[2].method = "get"
       /\ requests[2].url = Resolved(SettingsPath)
       /\ requests[2].status = 200
       /\ requests[2].body \in SnapshotIds
       /\ settings = Normalize(Snapshot(requests[2].body))

\* C12 witness: iso was set to b while the device's next snapshot still says
\* a; the cache follows the snapshot.
C12_Witness ==
    /\ SetDone
    /\ last_op.param = "iso" /\ last_op.value = StrVal("b")
    /\ last_op.put = "ok" /\ last_op.get = "ok"
    /\ last_op.kind = "return"
    /\ Len(requests) = 2
    /\ requests[1].url = Url(2, ParamPath("iso"))
    /\ settings["iso"].value = StrVal("a")
    /\ settings["colortemperature"].ability = << IntVal(1), IntVal(3), IntVal(5) >>

\* C13: setting a parameter of the table (a str value for the five str
\* parameters, an int value for colortemperature) to a value outside the
\* cached ability list raises the invalid-value ValueError, puts no call on
\* the wire and leaves the cache as it was.
C13_InvalidValueRejected ==
    (/\ SetDone
     /\ last_op.param \in DOMAIN param_key
     /\ last_op.value.t = (IF last_op.param = "colortemperature" THEN "int" ELSE "str")
     /\ ~In(last_op.value, last_op.before[KeyOf(last_op.param)].ability))
    => /\ last_op.kind = "raise"
       /\ last_op.exc = "ValueError: Invalid value"
       /\ requests = << >>
       /\ settings = last_op.before

InInit == last_op.name = "__init__"
SameRequest(a, b) == a.method = b.method /\ a.url = b.url

\* C18: a bring-up step that fails makes the session's constructor raise, and
\* no engine comes to exist; whenever the engine exists, its session has
\* been through every bring-up step: catalog, device information and
\* settings are loaded and the steps its flags ask for were made.
C18_BringUpAllOrNothing ==
    /\ cam.pc = "failed" =>
          (engine = "absent" /\ InInit /\ last_op.kind = "raise")
    /\ (InInit /\ requests # << >> /\ requests[Len(requests)].status # 200) =>
          cam.pc = "failed"
    /\ (InInit /\ cam.pc \notin {"ready", "failed"}) =>
          (engine = "absent" /\ last_op.kind = "running")
    /\ engine = "constructed" =>
          /\ cam.pc = "ready"
          /\ available_api \in CameraRoots
          /\ api_url = Flatten(available_api)
          /\ device_info = "deviceinformation"
          /\ \E id \in SnapshotIds : settings = Normalize(Snapshot(id))
          /\ InInit =>
                /\ last_op.kind = "return"
                /\ \A i \in 1 .. Len(requests) :
                      requests[i].status # 200 =>
                          (i < Len(requests) /\ SameRequest(requests[i], requests[i + 1]))
                /\ \E i \in 1 .. Len(requests) : requests[i].body = "root"
                /\ \E i \in 1 .. Len(requests) : requests[i].body = "deviceinformation"
                /\ \E i \in 1 .. Len(requests) : requests[i].body \in SnapshotIds
                /\ ~last_op.auto_power_off =>
                      \E i \in 1 .. Len(requests) :
                          /\ requests[i].url = Resolved(AutoPowerOffPath)
                          /\ requests[i].method = "put" /\ requests[i].status = 200
                /\ last_op.sync_time =>
                      \E i \in 1 .. Len(requests) :
                          /\ requests[i].url = Resolved(DateTimePath)
                          /\ requests[i].method = "put" /\ requests[i].status = 200

\* C18 witness: catalog, device information and settings were loaded, then
\* the auto-power-off PUT got no answer: the constructor raised and there is
\* no engine.
C18_Witness ==
    /\ cam.pc = "failed"
    /\ engine = "absent"
    /\ device_info = "deviceinformation"
    /\ settings = Normalize(Snapshot("S1"))
    /\ requests[Len(requests)].method = "put"
    /\ requests[Len(requests)].url = Url(1, AutoPowerOffPath)
    /\ requests[Len(requests)].status = 0
    /\ last_op.exc = "requests.Timeout"

\* The requests of a log with the repeats of a retried request dropped.
RECURSIVE Collapse(_)
Collapse(log) ==
    IF log = << >> THEN << >>
    ELSE LET c == Collapse(SubSeq(log, 1, Len(log) - 1))
             e == [method |-> log[Len(log)].method, url |-> log[Len(log)].url]
         IN  IF c # << >> /\ c[Len(c)] = e THEN c ELSE Append(c, e)

ExpectedBringUp ==
    << [method |-> "get", url |-> Uri],
       [method |-> "get", url |-> Resolved(DeviceInfoPath)],
       [method |-> "get", url |-> Resolved(SettingsPath)] >>
    \o (IF ~last_op.auto_power_off
        THEN << [method |-> "put", url |-> Resolved(AutoPowerOffPath)] >> ELSE << >>)
    \o (IF last_op.sync_time
        THEN << [method |-> "put", url |-> Resolved(DateTimePath)] >> ELSE << >>)

\* C19: bring-up sends GET root, GET deviceinformation, GET shooting/settings,
\* then PUT functions/autopoweroff = disable only without auto power off, then
\* PUT functions/datetime only with time sync, each only after the one before
\* it was answered with 200; only the root GET is sent before the catalog
\* is built, and the catalog is the flattening of every version tag of the
\* root response.
C19_BringUpOrder ==
    InInit =>
        /\ IsPrefix(Collapse(requests), ExpectedBringUp)
        /\ cam.pc = "ready" => Collapse(requests) = ExpectedBringUp
        /\ \A i \in 1 .. Len(requests) - 1 :
              ~SameRequest(requests[i], requests[i + 1]) => requests[i].status = 200
        /\ \A i \in 1 .. Len(requests) :
              requests[i].url = Resolved(AutoPowerOffPath) =>
                  requests[i].payload = ValuePayload(StrVal("disable"))
        /\ api_url = << Uri >> => \A i \in 1 .. Len(requests) : requests[i].url = Uri
        /\ api_url # << Uri >> =>
              /\ \E i \in 1 .. Len(requests) : requests[i].url = Uri /\ requests[i].status = 200
              /\ api_url = Flatten(available_api)
              /\ Range(api_url) = UNION {Range(available_api[g].apis) : g \in 1 .. Len(available_api)}

\* C19 witness: a session with both optional steps is ready after five
\* requests, one of them retried, on a catalog of two version tags.
C19_Witness ==
    /\ InInit
    /\ cam.pc = "ready"
    /\ ~last_op.auto_power_off /\ last_op.sync_time
    /\ Len(available_api) = 2
    /\ Len(Collapse(requests)) = 5
    /\ Len(requests) > 5
    /\ requests[Len(requests)].url = Url(1, DateTimePath)

IsValueError(exc) == exc \in {"ValueError: Invalid value", "ValueError: API not available"}

\* C26 (as claimed): set_shooting_settings with a parameter name outside the
\* table raises ValueError at once, with no network call and the cache
\* untouched.
C26_UnknownParamValueError ==
    (SetDone /\ Lower(last_op.param) \notin DOMAIN param_key)
        => /\ last_op.kind = "raise"
           /\ IsValueError(last_op.exc)
           /\ requests = << >>
           /\ settings = last_op.before

IsDateTimePut(q) == q.method = "put" /\ q.payload.key = "datetime"

\* The steps before the time sync have all been made and answered.
ReachedSync ==
    /\ requests # << >>
    /\ requests[Len(requests)].status = 200
    /\ Len(Collapse(requests)) = Len(ExpectedBringUp) - 1

\* C25: with time sync requested and an indeterminate DST flag, sync_time
\* raises ValueError before it resolves the datetime endpoint and without a
\* PUT; the session's construction fails and no engine holds the camera.
C25_DstUnknownFails ==
    (InInit /\ last_op.sync_time /\ ~last_op.dst_known) =>
        /\ \A i \in 1 .. Len(requests) : ~IsDateTimePut(requests[i])
        /\ cam.pc # "ready"
        /\ engine = "absent"
        /\ cam.pc = "failed" =>
              /\ last_op.kind = "raise"
              /\ ReachedSync => last_op.exc = "ValueError: Daylight saving time is not known"

\* C25 witness: on a catalog without the datetime endpoint the session got as
\* far as the time sync and failed on the DST flag, not on the endpoint.
C25_Witness ==
    /\ InInit /\ last_op.sync_time /\ ~last_op.dst_known
    /\ ~last_op.auto_power_off
    /\ cam.pc = "failed"
    /\ ~Resolves(DateTimePath)
    /\ ReachedSync
    /\ requests[Len(requests)].url = Url(1, AutoPowerOffPath)
    /\ last_op.exc = "ValueError: Daylight saving time is not known"

\* The body of the last answered GET of the settings URL.
LastFetch ==
    LET hits == {i \in 1 .. Len(requests) :
                    /\ requests[i].method = "get"
                    /\ requests[i].body \in SnapshotIds
                    /\ requests[i].status = 200}
    IN  IF hits = {} THEN "-" ELSE requests[MaxOf(hits)].body

Fetched == LastFetch \in SnapshotIds /\ settings = Normalize(Snapshot(LastFetch))

NumbersOf(list) == [i \in DOMAIN list |-> list[i].n]

\* min, min + step, ... up to and not beyond max.
UpToMax(r) == [i \in 1 .. ((r.max - r.min) \div r.step) + 1 |-> r.min + (i - 1) * r.step]

\* C22 (as claimed): every settings fetch replaces a non-empty colour
\* temperature range by the list min, min + step, ... that ends at max, with
\* max in it when max - min is a multiple of step; min 2500, max 2900, step
\* 100 gives 2500, 2600, 2700, 2800, 2900.
C22_RangeEndsAtMax ==
    /\ RangeList([min |-> 2500, max |-> 2900, step |-> 100]) = << 2500, 2600, 2700, 2800, 2900 >>
    /\ (Fetched /\ Snapshot(LastFetch).ct_range.present) =>
           NumbersOf(settings["colortemperature"].ability) = UpToMax(Snapshot(LastFetch).ct_range)

\* The part of C22 on a step boundary only.
C22_OnBoundary ==
    /\ RangeList([min |-> 2500, max |-> 2900, step |-> 100]) = << 2500, 2600, 2700, 2800, 2900 >>
    /\ (/\ Fetched /\ Snapshot(LastFetch).ct_range.present
        /\ (Snapshot(LastFetch).ct_range.max - Snapshot(LastFetch).ct_range.min)
               % Snapshot(LastFetch).ct_range.step = 0) =>
           NumbersOf(settings["colortemperature"].ability) = UpToMax(Snapshot(LastFetch).ct_range)

(***************************************************************************)
(* CannonWrapper.dump_attributes.                                          *)
(***************************************************************************)

\* Mutant of DumpRequests: the dump refreshes the settings from the device.
DumpRefetch == << [method |-> "get", url |-> Url(1, SettingsPath), payload |-> NoPayload,
                   body |-> "S1", status |-> 200] >>

\* Lines 573-586: the HTTP calls of dump_attributes (it makes none).
DumpRequests == << >>

\* Lines 573-582: dump_dict (req_timeout and ip_port are constructor
\* arguments that no method assigns).
DumpDict ==
    [wait_time     |-> wait_time,
     max_attempts  |-> max_attemts,
     available_api |-> available_api,
     api_url       |-> api_url,
     device_info   |-> device_info,
     settings      |-> settings]

\* dump_attributes(ouput_path): writes dump_dict to the file and returns it.
DumpAttributes ==
    /\ engine = "constructed"
    /\ cam.pc = "ready"
    /\ Len(dumps) < MaxDumps
    /\ dumps' = Append(dumps, DumpDict)
    /\ requests' = requests \o DumpRequests
    /\ UNCHANGED << sessionVars, cam, settings, device_info, last_op, engine, notCameraVars >>

(***************************************************************************)
(* UgokuKun.execute_cannon on one camera session: raw calls and shutter.   *)
(***************************************************************************)
\* np.bool_ / bool values.
BoolVal(b) == [t |-> "bool", s |-> "", n |-> IF b THEN 1 ELSE 0]

\* pd.isna(cell): an empty cell of the table is NaN.
IsNa(cell) == cell.t = "none"

\* strtobool, lines 77-80: the default magic strings.
true_str == {"true", "t", "yes", "y", "1", "mark"}
false_str == {"false", "f", "no", "n", "0", "space"}

\* helpers.strtobool(bool_str), lines 73-89.  A cell of a numeric column is a
\* number, which has no .lower().
StrToBool(cell) ==
    IF cell.t = "bool" THEN [ok |-> TRUE, exc |-> "-", val |-> cell.n = 1]
    ELSE IF cell.t # "str" THEN [ok |-> FALSE, exc |-> "AttributeError", val |-> FALSE]
    ELSE IF Lower(cell.s) \in true_str THEN [ok |-> TRUE, exc |-> "-", val |-> TRUE]
    ELSE IF Lower(cell.s) \in false_str THEN [ok |-> TRUE, exc |-> "-", val |-> FALSE]
    ELSE [ok |-> FALSE, exc |-> "ValueError: Could not convert to bool", val |-> FALSE]

\* The payload cells of the rows: a JSON object, a text that is no JSON, and
\* the empty cell.
JsonCell == StrVal("{\"k\": 1}")
BrokenJsonCell == StrVal("{")
PayloadCells == {JsonCell, BrokenJsonCell, NoneVal}

\* json.loads(cell): a str that is no JSON raises JSONDecodeError, a NaN
\* raises TypeError.
JsonLoads(cell) ==
    IF cell.t # "str" THEN [ok |-> FALSE, exc |-> "TypeError", payload |-> NoPayload]
    ELSE IF cell = JsonCell THEN [ok |-> TRUE, exc |-> "-", payload |-> [key |-> "k", val |-> IntVal(1)]]
    ELSE [ok |-> FALSE, exc |-> "JSONDecodeError", payload |-> NoPayload]

\* Mutant of JsonNeeded: the payload is parsed for every raw call.
JsonNeededAlways(action) == action \in {"get", "post", "put", "delete"}

\* execute_cannon, lines 255-268: the actions that call json.loads.
JsonNeeded(action) == action \in {"post", "put"}

\* f"{api_str}$" of a param cell, as a logical path.
PathOf(cell) ==
    IF cell.t = "str" THEN << cell.s >>
    ELSE IF cell.t = "none" THEN << "nan" >>
    ELSE << "1" >>

RowRaise(exc, cache) == [kind |-> "raise", exc |-> exc, sent |-> << >>, settings |-> cache]
RowHttp(h, cache) == [kind |-> h.out.kind, exc |-> h.out.exc, sent |-> h.sent, settings |-> cache]

\* Mutant of ShutterPayload: autofocus is always requested.
ShutterPayloadAlwaysAf(af) == [key |-> "af", val |-> BoolVal(TRUE)]

\* shutter, line 530: payload = {"af": bool(af)}
ShutterPayload(af) == [key |-> "af", val |-> BoolVal(af)]

\* Mutant of Shutter: the POST is made a second time.
ShutterTwice(catalog, cache, n, af, kind) ==
    LET r == GetFullUri(catalog, ShutterPath)
        h == HttpOf(catalog, n, "post", r.url, ShutterPayload(af), "-", kind)
    IN  IF r.kind = "raise" THEN RowRaise(r.exc, cache)
        ELSE [RowHttp(h, cache) EXCEPT !.sent = h.sent \o h.sent]

\* CannonWrapper.shutter(af), lines 530-534.
Shutter(catalog, cache, n, af, kind) ==
    LET r == GetFullUri(catalog, ShutterPath)
    IN  IF r.kind = "raise" THEN RowRaise(r.exc, cache)
        ELSE RowHttp(HttpOf(catalog, n, "post", r.url, ShutterPayload(af), "-", kind), cache)

\* execute_cannon(camera, row_index), lines 245-321, on the row [action,
\* param, payload]: how it ends, the calls it put on the wire and the cache.
CannonRow(catalog, cache, n, action, param, payload, kind) ==
    LET r == GetFullUri(catalog, PathOf(param))
        j == JsonLoads(payload)
    IN  IF action \in {"get", "post", "put", "delete"}
        THEN IF r.kind = "raise" THEN RowRaise(r.exc, cache)
             ELSE IF JsonNeeded(action) /\ ~j.ok THEN RowRaise(j.exc, cache)
             ELSE RowHttp(HttpOf(catalog, n, action, r.url,
                                 IF JsonNeeded(action) THEN j.payload ELSE NoPayload, "-", kind),
                          cache)
        ELSE IF action = "shutter"
        THEN IF IsNa(param) THEN Shutter(catalog, cache, n, FALSE, kind)
             ELSE IF ~StrToBool(param).ok THEN RowRaise(StrToBool(param).exc, cache)
             ELSE Shutter(catalog, cache, n, StrToBool(param).val, kind)
        ELSE IF action = "iso"
        THEN SetResultOf(catalog, cache, n, "iso", param, kind, "S1", kind)
        ELSE RowRaise("ValueError: Invalid action", cache)

\* The rows executed on the session: raw calls on a path of the catalog, on
\* an unknown path and with an empty param; shutter rows with an empty
\* param, with magic strings in several letter cases, with another text and
\* with the number 1 of a numeric param column; iso rows; an unknown action.
RawCells == {StrVal("/deviceinformation"), StrVal("/nowhere"), NoneVal}
ShutterCells == {NoneVal, StrVal("TRUE"), StrVal("y"), StrVal("No"), StrVal("maybe"), IntVal(1)}
CameraRows ==
    [action : {"post", "put"}, param : RawCells, payload : PayloadCells]
        \cup [action : {"get", "delete"}, param : RawCells, payload : {NoneVal, BrokenJsonCell}]
        \cup [action : {"shutter"}, param : ShutterCells, payload : {NoneVal, BrokenJsonCell}]
        \cup [action : {"iso", "zoom"}, param : {StrVal("a")}, payload : {NoneVal, BrokenJsonCell}]
RowKinds == {"ok", "down"}

ExecuteCannonRow(row, kind) ==
    /\ engine = "constructed"
    /\ cam.pc = "ready"
    /\ \E res \in {CannonRow(api_url, settings, max_attemts, row.action, row.param,
                             row.payload, kind)} :
          /\ requests' = res.sent
          /\ settings' = res.settings
          /\ last_op' = [NoOp EXCEPT !.name = "execute_cannon", !.action = row.action,
                                     !.value = row.param, !.payload = row.payload,
                                     !.put = kind, !.get = kind, !.before = settings,
                                     !.kind = res.kind, !.exc = res.exc]
    /\ dumps' = << >>
    /\ UNCHANGED << sessionVars, cam, device_info, engine, notCameraVars >>

\* The settings writes a dump is interleaved with: the device accepts both
\* requests at the first attempt.
DumpScenarios == {sc \in Scenarios : sc.put = "ok" /\ sc.get = "ok"}

NextDump ==
    \/ \E apo \in BOOLEAN, sync \in BOOLEAN, dstKnown \in BOOLEAN : Connect(apo, sync, dstKnown)
    \/ \E root \in CameraRoots, kind \in AnswerKinds : GetRoot(root, kind)
    \/ \E kind \in AnswerKinds : GetDeviceInfo(kind)
    \/ \E snap \in SnapshotIds, kind \in AnswerKinds : GetShootingParam(snap, kind)
    \/ \E kind \in AnswerKinds : KillAutoPowerOff(kind)
    \/ \E kind \in AnswerKinds : SyncTime(kind)
    \/ \E param \in SetParams, value \in SetValues, sc \in DumpScenarios :
            SetShootingSettings(param, value, sc.put, sc.snap, sc.get)
    \/ DumpAttributes
    \/ \E row \in CameraRows, kind \in RowKinds : ExecuteCannonRow(row, kind)

SpecDump == InitCamera /\ [][NextDump]_vars

\* C21: a dump_attributes call on a ready session sends no request and
\* changes no field of the session, and it returns the same snapshot as the
\* dump before it when no settings write came in between.
C21_DumpIdempotent ==
    [][Len(dumps') = Len(dumps) + 1 =>
          /\ UNCHANGED << sessionVars, cam, settings, device_info, requests >>
          /\ dumps'[Len(dumps')] = DumpDict
          /\ dumps # << >> => dumps'[Len(dumps')] = dumps[Len(dumps)]]_vars

\* C21 witness: two dumps in a row of a session whose settings were written
\* after bring-up.
C21_Witness ==
    /\ Len(dumps) = 2
    /\ dumps[1] = dumps[2]
    /\ dumps[2].settings = settings
    /\ last_op.name = "set_shooting_settings"
    /\ last_op.kind = "return"
    /\ settings # last_op.before

\* C29 (as claimed): the session's cached speed is the speed most recently
\* set by a speed row, and the settling sleep of a turn is |degrees| over
\* that speed times 6.
C29_SleepFollowsSetSpeed ==
    [][/\ device_speed' # device_speed => speed' = device_speed'
       /\ (turn.pc = "moved" /\ turn'.pc = "done") =>
             /\ motor_log'[Len(motor_log')].ev = "sleep"
             /\ SameRational(motor_log'[Len(motor_log')].val,
                             [num |-> Abs(turn.degrees), den |-> device_speed * 6])]_vars

\* C30 (as claimed): a load_task_csv call on an engine that raises leaves the
\* installed table and task_csv_path as they were; a call that returns
\* installs exactly the rows of its source.
C30_FailedLoadKeepsTable ==
    [][(engine = "constructed" /\ engine' = "constructed") =>
          IF loaded'.kind = "raise"
          THEN UNCHANGED << task_csv_path, csv_df, csv_headers, task_id_list >>
          ELSE /\ csv_df' = ReadCsv(loaded'.file).rows
               /\ csv_headers' = ReadCsv(loaded'.file).columns
               /\ task_id_list' = ReadCsv(loaded'.file).ids]_vars

HasEntries(k) == k = "some"

\* C24 (as claimed): a descriptor without a camera entry makes the engine's
\* construction fail, and no engine exists; a descriptor with a camera entry
\* and without a motor entry logs the notice and construction goes on to
\* the cameras.
C24_CamerasRequiredMotorsOptional ==
    (built.kind # "none" /\ loaded.kind = "return") =>
        /\ ~HasEntries(built.cannon) => (built.kind = "raise" /\ engine = "absent")
        /\ (HasEntries(built.cannon) /\ ~HasEntries(built.keigan)) =>
              /\ built.notice
              /\ built.stage = "sessions"

\* The part of C24 for descriptors that hold both keys.
C24_BothKeysPresent ==
    (/\ built.kind # "none" /\ loaded.kind = "return"
     /\ built.keigan # "missing" /\ built.cannon # "missing") =>
        /\ ~HasEntries(built.cannon) =>
              /\ built.kind = "raise" /\ engine = "absent"
              /\ built.exc = "ValueError: No devices found in the device json file."
                    \/ (built.keigan = "some" /\ built.exc = "DeviceError")
        /\ (HasEntries(built.cannon) /\ ~HasEntries(built.keigan)) =>
              /\ built.notice
              /\ built.stage = "sessions"

(***************************************************************************)
(* UgokuKun with several sessions: execute_row on cannon_instances and     *)
(* keigan_instances.                                                       *)
(***************************************************************************)
FleetCameras == {"camA", "camB"}
FleetMotors == {"motor1"}

\* The root response of each camera of the fleet: camA lists every endpoint
\* under two version tags, camB has no iso and no datetime endpoint.
FleetRoot(id) ==
    IF id = "camA"
    THEN CHOOSE r \in CameraRoots : Len(r) = 2
    ELSE CHOOSE r \in CameraRoots : Len(r) = 1 /\ GetFullUri(Flatten(r), DeviceInfoPath).kind = "return"

\* A CannonWrapper after its constructor returned, with the settings body
\* the device answered.
ReadySession(id, snap) ==
    [ip_port       |-> id,
     wait_time     |-> DefaultWaitTime,
     max_attemts   |-> CamAttempts,
     available_api |-> FleetRoot(id),
     api_url       |-> Flatten(FleetRoot(id)),
     device_info   |-> "deviceinformation",
     settings      |-> Normalize(Snapshot(snap))]

\* A KeiganWrapper after its constructor returned.
ReadyMotor == [speed |-> DefaultSpeed, device_speed |-> DefaultSpeed, moved |-> 0]

\* The rows executed on the fleet.
FleetTargets == FleetCameras \cup FleetMotors
FleetActions == {"iso", "color_temperature", "get", "cw", "speed"}
FleetParams == {"a", "3", "/deviceinformation"}

\* int(param): of FleetParams only "3" is a numeral.
IntOf(param) == IF param = "3" THEN [ok |-> TRUE, n |-> 3] ELSE [ok |-> FALSE, n |-> 0]

\* What the device does with the requests of one row.
FleetScenarios ==
    [put : {"ok"}, snap : SnapshotIds, get : {"ok"}]
        \cup [put : {"ok"}, snap : {"S1"}, get : {"down"}]
        \cup [put : {"down"}, snap : {"S1"}, get : {"down"}]

\* execute_cannon on one session: how it ends, the calls it put on the wire
\* and the settings cache it leaves.
ExecuteCannonOn(sess, action, param, sc) ==
    LET r == GetFullUri(sess.api_url, << param >>)
        h == HttpOf(sess.api_url, sess.max_attemts, "get", r.url, NoPayload, "-", sc.get)
    IN  IF action = "get"
        THEN IF r.kind = "raise"
             THEN [kind |-> "raise", exc |-> r.exc, sent |-> << >>, settings |-> sess.settings]
             ELSE [kind |-> h.out.kind, exc |-> h.out.exc, sent |-> h.sent, settings |-> sess.settings]
        ELSE IF action = "iso"
        THEN SetResultOf(sess.api_url, sess.settings, sess.max_attemts, "iso", StrVal(param),
                         sc.put, sc.snap, sc.get)
        ELSE IF action = "color_temperature"
        THEN IF ~IntOf(param).ok
             THEN [kind |-> "raise", exc |-> "ValueError: invalid literal for int()",
                   sent |-> << >>, settings |-> sess.settings]
             ELSE SetResultOf(sess.api_url, sess.settings, sess.max_attemts, "colortemperature",
                              IntVal(IntOf(param).n), sc.put, sc.snap, sc.get)
        ELSE [kind |-> "raise", exc |-> "ValueError: Invalid action", sent |-> << >>,
              settings |-> sess.settings]

\* execute_keigan on one session: how it ends and the session it leaves.
ExecuteKeiganOn(m, action, param, ok) ==
    IF action \notin {"cw", "speed"}
    THEN [kind |-> "raise", exc |-> "ValueError: Invalid action", motor |-> m]
    ELSE IF ~IntOf(param).ok
    THEN [kind |-> "raise", exc |-> "ValueError: invalid literal for int()", motor |-> m]
    ELSE IF ~ok
    THEN [kind |-> "raise", exc |-> "device error", motor |-> m]
    ELSE IF action = "cw"
    THEN [kind |-> "return", exc |-> "-", motor |-> [m EXCEPT !.moved = Signed(TRUE, IntOf(param).n)]]
    ELSE [kind |-> "return", exc |-> "-", motor |-> [m EXCEPT !.device_speed = IntOf(param).n]]

\* Mutant of InstanceOf: every row is executed on the first camera session.
InstanceFirst(camera) == "camA"

\* self.cannon_instances[camera]
InstanceOf(camera) == camera

\* The device a session's requests go to: the host of its URLs.
Tagged(sess, sent) == [i \in DOMAIN sent |-> [device |-> sess.ip_port, call |-> sent[i]]]

\* execute_row(row_index), lines 195-207, on a table row [target, action,
\* param]: sc and ok are what the devices do with the row's calls.
ExecuteRowOn(target, action, param, sc, ok) ==
    /\ fleet # NoFleet
    /\ IF target \in FleetCameras
       THEN \E res \in {ExecuteCannonOn(fleet.cameras[InstanceOf(target)], action, param, sc)} :
                  fleet' = [fleet EXCEPT
                               !.cameras[InstanceOf(target)].settings = res.settings,
                               !.wire = Tagged(fleet.cameras[InstanceOf(target)], res.sent),
                               !.row = [target |-> target, action |-> action, param |-> param,
                                        kind |-> res.kind, exc |-> res.exc]]
       ELSE \E res \in {ExecuteKeiganOn(fleet.motors[target], action, param, ok)} :
                  fleet' = [fleet EXCEPT
                               !.motors[target] = res.motor,
                               !.wire = << >>,
                               !.row = [target |-> target, action |-> action, param |-> param,
                                        kind |-> res.kind, exc |-> res.exc]]
    /\ UNCHANGED << sessionVars, executorVars, resolverVars, engineVars, loaderVars, motorVars,
                    cameraVars >>

InitFrame ==
    /\ SessionInit({<< >>})
    /\ max_attemts = DefaultMaxAttempts
    /\ wait_time = DefaultWaitTime
    /\ ExecutorIdle
    /\ ResolverIdle
    /\ csv_df = << >>
    /\ devresp = << >>
    /\ EngineIdle
    /\ LoaderIdle
    /\ MotorIdle
    /\ CameraIdle
    /\ \E sa \in SnapshotIds, sb \in SnapshotIds :
          fleet = [NoFleet EXCEPT
                      !.cameras = [c \in FleetCameras |->
                                      ReadySession(c, IF c = "camA" THEN sa ELSE sb)],
                      !.motors = [m \in FleetMotors |-> ReadyMotor]]

NextFrame ==
    \E target \in FleetTargets, action \in FleetActions, param \in FleetParams,
       sc \in FleetScenarios, ok \in BOOLEAN : ExecuteRowOn(target, action, param, sc, ok)

SpecFrame == InitFrame /\ [][NextFrame]_vars

\* C23: a row that targets a camera, whether it returns or raises, sends
\* requests to that camera only and leaves the catalog, device information,
\* retry policy and cached settings of every other camera session, and every
\* motor session, as they were.
C23_RowTouchesItsCameraOnly ==
    [][fleet'.row.target \in FleetCameras =>
          /\ \A o \in FleetCameras \ {fleet'.row.target} : fleet'.cameras[o] = fleet.cameras[o]
          /\ fleet'.motors = fleet.motors
          /\ \A i \in DOMAIN fleet'.wire : fleet'.wire[i].device = fleet'.row.target]_vars

\* C23 witness: a settings row on camB returned after its requests went out
\* and changed camB's cache, with camA's cache and the motor as changed by
\* rows before it.
C23_Witness ==
    /\ fleet # NoFleet
    /\ fleet.row.target = "camB"
    /\ fleet.row.action = "color_temperature"
    /\ fleet.row.kind = "return"
    /\ Len(fleet.wire) >= 2
    /\ fleet.cameras["camB"].settings = Normalize(Snapshot("S3"))
    /\ fleet.cameras["camA"].settings = Normalize(Snapshot("S2"))
    /\ fleet.motors["motor1"].device_speed = 3

FailingKinds == {"down", "busy"}
RetriesExhausted == {"requests.Timeout", "ConnectionError: I'm a teapot"}

\* C39: a setting change whose PUT fails at every attempt raises the PUT's
\* error, sends no refresh GET and leaves the cache as it was; when the PUT
\* is answered and the refresh GET fails at every attempt, the GET's error
\* is raised and the cache is still the one from before the change.
C39_FailedWriteKeepsCache ==
    (/\ SetDone
     /\ Lower(last_op.param) \in DOMAIN param_key
     /\ In(last_op.value, last_op.before[KeyOf(last_op.param)].ability)
     /\ Resolves(ParamPath(KeyOf(last_op.param)))
     /\ Resolves(SettingsPath))
    => /\ last_op.put \in FailingKinds =>
             /\ last_op.kind = "raise"
             /\ last_op.exc \in RetriesExhausted
             /\ Len(requests) = max_attemts
             /\ \A i \in DOMAIN requests : requests[i].method = "put" /\ requests[i].status # 200
             /\ settings = last_op.before
       /\ (last_op.put \notin FailingKinds /\ last_op.get \in FailingKinds) =>
             /\ last_op.kind = "raise"
             /\ last_op.exc \in RetriesExhausted
             /\ \E i \in DOMAIN requests : requests[i].method = "put" /\ requests[i].status = 200
             /\ requests[Len(requests)].method = "get"
             /\ \A i \in DOMAIN requests : requests[i].method = "get" => requests[i].status # 200
             /\ settings = last_op.before

\* C39 witness: the PUT of iso = b got 500 at every attempt.
C39_Witness ==
    /\ SetDone
    /\ last_op.param = "iso" /\ last_op.value = StrVal("b")
    /\ last_op.put = "busy"
    /\ last_op.kind = "raise"
    /\ last_op.exc = "ConnectionError: I'm a teapot"
    /\ Len(requests) = max_attemts
    /\ settings = last_op.before
    /\ settings["iso"].value = StrVal("a")

\* The refresh GET of a written setting timed out at every attempt.
C39_RefreshFailed ==
    /\ SetDone
    /\ last_op.put = "ok" /\ last_op.get = "down"
    /\ last_op.kind = "raise"
    /\ last_op.exc = "requests.Timeout"
    /\ Len(requests) = 1 + max_attemts

\* C36 (as claimed): after every settings fetch each value of the normalized
\* colour temperature ability list lies between the min and the max of the
\* range the device reported.
C36_AbilityWithinRange ==
    (Fetched /\ Snapshot(LastFetch).ct_range.present) =>
        \A i \in DOMAIN settings["colortemperature"].ability :
            /\ settings["colortemperature"].ability[i].n >= Snapshot(LastFetch).ct_range.min
            /\ settings["colortemperature"].ability[i].n <= Snapshot(LastFetch).ct_range.max


(***************************************************************************)
(* Rows executed on a camera session.                                      *)
(***************************************************************************)
RowDone(action) == last_op.name = "execute_cannon" /\ last_op.action = action

\* The text of a param cell, in lower case, is one of the words.
Says(cell, words) ==
    \/ cell.t = "str" /\ Lower(cell.s) \in words
    \/ cell.t = "int" /\ ToString(cell.n) \in words

\* Every call on the wire is a POST of {"af": af} to the shutter button.
PostsAf(af) ==
    /\ requests # << >>
    /\ \A i \in DOMAIN requests :
          /\ requests[i].method = "post"
          /\ requests[i].url = Resolved(ShutterPath)
          /\ requests[i].payload = [key |-> "af", val |-> BoolVal(af)]

\* C32: a shutter row on a session that has the shutter-button endpoint posts
\* {"af": false} when its param is empty or one of false/f/no/n/0/space,
\* posts {"af": true} when its param is one of true/t/yes/y/1/mark, in any
\* letter case, and with any other param raises the ValueError of the
\* conversion with no call on the wire.
C32_ShutterAutofocus ==
    (RowDone("shutter") /\ Resolves(ShutterPath)) =>
        IF IsNa(last_op.value) \/ Says(last_op.value, false_str) THEN PostsAf(FALSE)
        ELSE IF Says(last_op.value, true_str) THEN PostsAf(TRUE)
        ELSE /\ last_op.kind = "raise"
             /\ last_op.exc = "ValueError: Could not convert to bool"
             /\ requests = << >>

\* The same for the param cells that are texts or empty.
C32_TextCells ==
    (RowDone("shutter") /\ Resolves(ShutterPath) /\ last_op.value.t # "int") =>
        IF IsNa(last_op.value) \/ Says(last_op.value, false_str) THEN PostsAf(FALSE)
        ELSE IF Says(last_op.value, true_str) THEN PostsAf(TRUE)
        ELSE /\ last_op.kind = "raise"
             /\ last_op.exc = "ValueError: Could not convert to bool"
             /\ requests = << >>

\* A shutter row whose param cell is the number 1 ended in the AttributeError
\* of .lower().
C32_NumberCell ==
    /\ RowDone("shutter") /\ Resolves(ShutterPath)
    /\ last_op.value = IntVal(1)
    /\ last_op.exc = "AttributeError"
    /\ requests = << >>
\* C33: the payload cell is parsed when the row is executed and only by post
\* and put.  A row with another action ends, with any payload cell in its
\* place, exactly as it ended: same outcome, same calls on the wire, same
\* cache.  A post or put row whose payload is no JSON raises without a call
\* on the wire, the error of json.loads when its endpoint resolved and the
\* error of the resolver when it did not.
C33_PayloadParsedLazily ==
    /\ (last_op.name = "execute_cannon" /\ last_op.action \notin {"post", "put"}) =>
          \A p \in PayloadCells :
              CannonRow(api_url, last_op.before, max_attemts, last_op.action,
                        last_op.value, p, last_op.put)
                  = [kind |-> last_op.kind, exc |-> last_op.exc, sent |-> requests,
                     settings |-> settings]
    /\ (last_op.name = "execute_cannon" /\ last_op.action \in {"post", "put"}
            /\ last_op.payload = BrokenJsonCell) =>
          /\ last_op.kind = "raise"
          /\ requests = << >>
          /\ last_op.exc = IF Resolves(PathOf(last_op.value)) THEN "JSONDecodeError"
                           ELSE "ValueError: API not available"

\* A put row with a payload that is no JSON, on an endpoint of the catalog.
C33_Witness ==
    /\ RowDone("put") /\ last_op.payload = BrokenJsonCell
    /\ Resolves(PathOf(last_op.value))
    /\ last_op.exc = "JSONDecodeError" /\ requests = << >>

\* A get row with a payload that is no JSON was answered.
C33_GetIgnoresPayload ==
    /\ RowDone("get") /\ last_op.payload = BrokenJsonCell
    /\ last_op.kind = "return" /\ requests # << >>
RawActions == {"get", "post", "put", "delete"}

\* No URL of the session's catalog matches the param cell.
NoMatch(cell) == \A i \in DOMAIN api_url : ~Search(PathOf(cell), api_url[i])

CallsOnCatalog ==
    last_op.name # "__init__" =>
        /\ \A i \in DOMAIN requests : requests[i].url \in Range(api_url)
        /\ last_op.exc # "AssertionError: API not available"

\* C37: no step taken on a Ready session (raw call, setting change with its
\* refresh, shutter, dump) changes api_url or available_api, and after the
\* step every call the session made went to a member of api_url without
\* failing the executor's assertion.
C37_CatalogFrozen ==
    [][cam.pc = "ready" =>
          /\ api_url' = api_url
          /\ available_api' = available_api
          /\ CallsOnCatalog']_vars

\* A get row was answered on a URL of the catalog of a Ready session.
C37_Witness ==
    /\ cam.pc = "ready" /\ RowDone("get") /\ last_op.kind = "return"
    /\ requests # << >>
    /\ requests[1].url = Resolved(PathOf(last_op.value))
    /\ requests[1].url \in Range(api_url)

(***************************************************************************)
(* The "all" / sleep row.                                                  *)
(***************************************************************************)
IsSleepRow(i) == csv_df[i].target = "all" /\ csv_df[i].action = "sleep"
OfRow(seq, i) == SelectSeq(seq, LAMBDA e : e.row = i)

\* C31: in both run modes a row with target "all" and action sleep that was
\* executed returned from execute_all, issued no device call and applied no
\* change; the events of the row are the entry into execute_row alone,
\* preceded in a timed run by the one sleep of its wait_time; a dry run
\* never sleeps.
C31_SleepRowNoOp ==
    /\ slept["test_run"] = << >>
    /\ \A m \in Modes : \A k \in DOMAIN visited[m] :
          LET i == visited[m][k].row
          IN  IsSleepRow(i) =>
                /\ ~visited[m][k].raised
                /\ visited[m][k].handler = "execute_all"
                /\ OfRow(devcalls[m], i) = << >>
                /\ OfRow(applied[m], i) = << >>
                /\ OfRow(events[m], i) =
                      IF m = "run"
                      THEN << [ev |-> "sleep", row |-> i], [ev |-> "execute_row", row |-> i] >>
                      ELSE << [ev |-> "execute_row", row |-> i] >>
                /\ m = "run" => OfRow(slept[m], i) = << [row |-> i, secs |-> csv_df[i].wait_time] >>

\* Both modes executed a sleep row that waits one second in a timed run, and
\* a device row after it.
C31_Witness ==
    /\ Len(csv_df) = 2 /\ IsSleepRow(1) /\ csv_df[1].wait_time = 1
    /\ CallsDevice(csv_df[2])
    /\ \A m \in Modes : Len(visited[m]) = 2 /\ Len(devcalls[m]) = 1
    /\ slept["test_run"] = << >>
    /\ Len(slept["run"]) = 2

(***************************************************************************)
(* Order of the engine's construction.                                     *)
(***************************************************************************)
\* C38: a constructor call whose table load raised (missing header or
\* duplicate task_id) ends with that error without having called any
\* session constructor; in every constructor call, each motor session
\* constructor comes before every camera session constructor.
C38_TableThenMotorsThenCameras ==
    /\ built.stage = "load" =>
          /\ built.kind = "raise"
          /\ loaded.kind = "raise"
          /\ built.exc = loaded.exc
          /\ built.calls = << >>
          /\ engine = "absent"
    /\ \A i, j \in DOMAIN built.calls :
          (built.calls[i] = "KeiganWrapper" /\ built.calls[j] = "CannonWrapper") => i < j

\* An engine was constructed from an accepted table: motor session, then
\* camera session.
C38_Witness ==
    /\ built.kind = "return" /\ loaded.kind = "return"
    /\ built.calls = << "KeiganWrapper", "CannonWrapper" >>

\* A constructor call ended on a table with a duplicate task_id.
C38_TableRejected ==
    /\ built.stage = "load" /\ built.exc = "ValueError: task_id must be unique."
    /\ built.calls = << >>

(***************************************************************************)
(* The bring-up of a motor session.                                        *)
(***************************************************************************)
\* The calls of a bring-up that runs to its end, in order.
BringUpOrder(os) ==
    << ReleaseCall(os), "USBController", "set_led", "disable_action", "set_speed",
       "set_curve_type" >>

\* C35: a bring-up whose port is not among the enumerated ports fails with
\* "port not available" without a release, connect or driver call; otherwise
\* the calls made so far are the first calls of: release the port, connect,
\* zero the LED, disable the action, set the speed (and the curve type), in
\* that order and each once; a connect cut off by the timeout fails with the
\* serial timeout exception and any other connect failure with another one,
\* both before any driver call; the motor has the speed once set_speed
\* returned.
C35_BringUpOrder ==
    /\ (motor_init.pc \notin {"-", "absent"} /\ motor_init.port \notin motor_init.ports) =>
          /\ motor_init.pc = "failed"
          /\ motor_init.exc = "ValueError: Port not available"
          /\ motor_init.log = << >>
    /\ (motor_init.pc \notin {"-", "absent"} /\ motor_init.port \in motor_init.ports) =>
          /\ IsPrefix(motor_init.log, BringUpOrder(motor_init.os))
          /\ motor_init.exc # "ValueError: Port not available"
    /\ motor_init.connect = "timeout" =>
          /\ motor_init.pc = "failed" /\ motor_init.exc = "serial.SerialTimeoutException"
          /\ Len(motor_init.log) = 2
    /\ motor_init.connect = "error" =>
          /\ motor_init.pc = "failed" /\ motor_init.exc # "serial.SerialTimeoutException"
          /\ Len(motor_init.log) = 2
    /\ motor_init.pc = "ready" =>
          /\ motor_init.log = BringUpOrder(motor_init.os)
          /\ device_speed = speed

\* A bring-up ran to its end.
C35_Witness ==
    /\ motor_init.pc = "ready" /\ motor_init.port \in motor_init.ports
    /\ motor_init.log = BringUpOrder(motor_init.os) /\ device_speed = speed

\* A bring-up ended at the port check.
C35_PortMissing ==
    /\ motor_init.pc = "failed" /\ motor_init.port \notin motor_init.ports /\ motor_init.log = << >>

\* A bring-up ended in the connect timeout.
C35_TimedOut ==
    /\ motor_init.connect = "timeout" /\ motor_init.exc = "serial.SerialTimeoutException"

(***************************************************************************)
(* test_run / run over a table of camera rows, on a Ready session.         *)
(***************************************************************************)
\* The rows of the tables: a sleep row, raw calls on a path of the catalog
\* and on an unknown path, a setting change and a shutter release.
TaskRow(target, action, param) ==
    [wait_time |-> 0, target |-> target, action |-> action, param |-> param,
     payload |-> NoneVal]
TaskRows ==
    {TaskRow("all", "sleep", NoneVal),
     TaskRow("cam1", "get", StrVal("/deviceinformation")),
     TaskRow("cam1", "get", StrVal("/nowhere")),
     TaskRow("cam1", "iso", StrVal("a")),
     TaskRow("cam1", "shutter", NoneVal)}

\* The rows whose execution reaches the wire.
OnWire(row) == row.target = "cam1" /\ row.param # StrVal("/nowhere")

\* execute_row(i) on the session of the camera variables: Dispatch picks the
\* handler; [kind, exc, sent, settings].
TaskRowOutcome(i) ==
    IF Dispatch(i) = "execute_all"
    THEN [kind |-> IF ExecuteAll(i).raised THEN "raise" ELSE "return",
          exc |-> ExecuteAll(i).exc, sent |-> << >>, settings |-> settings]
    ELSE IF Dispatch(i) = "execute_cannon"
    THEN CannonRow(api_url, settings, max_attemts, csv_df[i].action, csv_df[i].param,
                   csv_df[i].payload, devresp[i])
    ELSE [kind |-> "raise", exc |-> "ValueError: Invalid target", sent |-> << >>,
          settings |-> settings]

\* The HTTP calls of row i, as the run's record of device calls.
WireCalls(i, sent) ==
    [k \in 1 .. Len(sent) |-> [row |-> i, target |-> csv_df[i].target, action |-> csv_df[i].action]]

\* One iteration of the loop of test_run or of run (which sleeps first).
RunTaskRow ==
    /\ mode \in Modes
    /\ HasNext(index)
    /\ ~SleepRaises(csv_df[NextRow(index)].wait_time)
    /\ \E i \in {NextRow(index)} : \E res \in {TaskRowOutcome(i)} :
          \E r \in {[raised |-> res.kind = "raise", exc |-> res.exc,
                     call |-> WireCalls(i, res.sent), change |-> << >>]} :
             /\ AfterRow(mode, i, r)
             /\ slept' = IF mode = "run"
                         THEN [slept EXCEPT !["run"] = Append(@, [row |-> i, secs |-> csv_df[i].wait_time])]
                         ELSE slept
             /\ events' = [events EXCEPT ![mode] =
                              @ \o (IF mode = "run" THEN RunIteration(i, r) ELSE TestRunIteration(i, r))]
             /\ requests' = res.sent
             /\ settings' = res.settings
             /\ last_op' = [NoOp EXCEPT !.name = "execute_row", !.action = csv_df[i].action,
                                        !.value = csv_df[i].param, !.put = devresp[i],
                                        !.get = devresp[i], !.before = settings,
                                        !.kind = res.kind, !.exc = res.exc]
    /\ UNCHANGED << sessionVars, executorVars, resolverVars, csv_df, devresp, loaderVars,
                    motorVars, cam, device_info, dumps, fleet >>

InitRows ==
    /\ available_api = FleetRoot("camA")
    /\ api_url = Flatten(FleetRoot("camA"))
    /\ max_attemts = CamAttempts
    /\ wait_time = DefaultWaitTime
    /\ ExecutorIdle
    /\ ResolverIdle
    /\ csv_df \in SeqsUpTo(TaskRows, MaxRows)
    /\ devresp \in [1 .. Len(csv_df) -> {"ok", "retry", "down"}]
    /\ \A i \in 1 .. Len(csv_df) : ~OnWire(csv_df[i]) => devresp[i] = "ok"
    /\ EngineIdle
    /\ engine = "constructed"
    /\ task_csv_path = "tasks.csv"
    /\ csv_headers = Range(must_have_headers)
    /\ task_id_list = [i \in 1 .. Len(csv_df) |-> i]
    /\ loaded = NotLoaded
    /\ built = NotBuilt
    /\ MotorIdle
    /\ cam = [pc |-> "ready"]
    /\ settings = Normalize(Snapshot("S1"))
    /\ device_info = "deviceinformation"
    /\ requests = << >>
    /\ last_op = NoOp
    /\ dumps = << >>
    /\ fleet = NoFleet

NextRows ==
    \/ \E m \in Modes : Begin(m)
    \/ RunTaskRow

SpecRows == InitRows /\ [][NextRows]_vars

\* What an iteration of the loop does to the position of the run: it moves to
\* the next row, or it ends the run (at the last row, or with the exception
\* of the row).  Every RunTaskRow step is such a step, and no other step is.
Iterate ==
    /\ mode \in Modes
    /\ HasNext(index)
    /\ index' \in {index, NextRow(index)}
    /\ mode' \in {mode, "-"}
    /\ << index', mode' >> # << index, mode >>

\* Every device call returns or raises, and the interpreter goes on: a loop
\* that can make an iteration makes it.
SpecRowsFair == SpecRows /\ WF_<< index, mode >>(Iterate)

IsSetting(action) ==
    action \in {"aperture", "exposure", "iso", "color_temperature", "white_balance", "shutter_speed"}

\* The rows of a run are the first rows of the table, each once.
NoRowTwice(m) == \A k \in DOMAIN visited[m] : visited[m][k].row = k

\* A run that is over executed every row, or stopped at its first row that
\* raised.
EndsAtFirstFailure(m) ==
    /\ \A k \in DOMAIN visited[m] : visited[m][k].raised => k = Len(visited[m]) /\ result[m] = "aborted"
    /\ result[m] = "completed" => Len(visited[m]) = Len(csv_df)
    /\ result[m] = "aborted" => visited[m] # << >> /\ visited[m][Len(visited[m])].raised

\* The HTTP calls of each row are at most max_attemts, and at most twice that
\* for a setting row.
CallsBounded(m) ==
    \A i \in DOMAIN csv_df :
        Len(OfRow(devcalls[m], i)) <=
            IF IsSetting(csv_df[i].action) THEN 2 * max_attemts ELSE max_attemts

\* C40: every run that was started over a table comes to its end, completed
\* with every row executed or aborted at the first row that raised; no row
\* is executed twice; and the HTTP calls made for one camera row are at most
\* 2 * max_attemts for a setting row and at most max_attemts for any other
\* row.
C40_RunTerminatesCallsBounded ==
    /\ [](\A m \in Modes : NoRowTwice(m) /\ EndsAtFirstFailure(m) /\ CallsBounded(m))
    /\ \A m \in Modes : (result[m] = "running") ~> Finished(m)

\* A timed run completed; its last row is a setting row that took 2 *
\* max_attemts calls: a PUT and a refresh GET, each retried.
C40_Witness ==
    /\ result["run"] = "completed" /\ Len(csv_df) = MaxRows
    /\ IsSetting(csv_df[Len(csv_df)].action)
    /\ Len(OfRow(devcalls["run"], Len(csv_df))) = 2 * max_attemts
    /\ Len(requests) = 2 * max_attemts

\* A run was aborted at its first row, with rows left.
C40_Aborted ==
    /\ result["test_run"] = "aborted" /\ Len(visited["test_run"]) = 1 /\ Len(csv_df) = 2
====
